---------------------------- MODULE Spec2Model ----------------------------
(***************************************************************************)
(* A model of padlock (blues/padlock), a K-of-N threshold one-time-pad     *)
(* archiver.  The module holds several sub-systems, each with its own      *)
(* variables and its own specification:                                    *)
(*                                                                         *)
(*   SpecNewPad   pad.NewPadForEncode (parameter validation)               *)
(*   SpecPad      pad.Pad.Encode / pad.Pad.Decode over in-memory streams   *)
(*   SpecSer      directory -> tar -> gzip -> gunzip -> directory          *)
(*   SpecPNG      encodePNGWithData / ExtractDataFromPNG                   *)
(*   SpecTar      EncodeDirectory in archive mode, the TarChunkWriters     *)
(*   SpecDec      DecodeDirectory: codec, pipe and deserialiser goroutine  *)
(*   SpecDecLive  the same where a side may stall, with fairness           *)
(*   SpecEncIn    EncodeDirectory: serialiser, gzip and the codec's input  *)
(*   SpecIcn      IsCollectionName                                         *)
(*   SpecDcs      CompressStreamToStream / DecompressStreamToStream        *)
(*   SpecVer      EncodeDirectory: the PNG verification pass               *)
(*   SpecCli      the encode command's output directories and flags        *)
(*   SpecRng      TestRNG                                                  *)
(*   SpecTd       Pad.Decode from collections with a missing chunk or      *)
(*                a relabelled frame                                       *)
(*   SpecCr       CollectionReader.ReadNextChunk on directories and .tar   *)
(*   SpecRs       the Read of an RNG sub-source called by two tasks        *)
(*   SpecTw       the TarChunkWriter registry and its mutexes              *)
(*   SpecTwLive   the same with a fair scheduler                           *)
(*   SpecEg       EncodeDirectory's serialiser and compressor goroutines   *)
(*   SpecEgLive   the same with a fair scheduler                           *)
(*                                                                         *)
(* pkg/pad/pad.go is not part of the source tree at hand: the pad scheme   *)
(* and the order of the codec's calls on its writers are modelled from the *)
(* specification (sections 3, 4.2 - 4.4), and so is the preparation of the *)
(* output directory; everything else is modelled from the Go source.       *)
(***************************************************************************)
EXTENDS Integers, Sequences, FiniteSets, TLC

VARIABLES
    np,       \* SpecNewPad: the call NewPadForEncode(N, K) and its result
    pad,      \* the Pad object: TotalCopies, RequiredCopies, Collections
    enc,      \* Pad.Encode: position, input stream, chunk buffer, RNG
    colls,    \* per collection: the chunks written (one writer per chunk)
    dec,      \* Pad.Decode: position, readers, pinned (K,N), output, error
    ser,      \* SerializeDirectoryToStream: the input tree and the walk over it
    wire,     \* the byte stream between serialiser and deserialiser
    des,      \* DeserializeDirectoryFromStream: the output tree and its result
    png,      \* one PNG wrapper round: payload, file bytes, tampering, result
    fsys,     \* the output directory and the files behind its names
    tarWriters, \* the process-wide registry of open TarChunkWriters, by path
    run,      \* the EncodeDirectory call in progress and the calls made
    dd,       \* one DecodeDirectory call: codec, pipe, deserialiser, result
    ein,      \* EncodeDirectory's input: serialiser, compressor, the codec's reads
    icn,      \* one call of IsCollectionName: the string and the answer
    dcs,      \* one call of DecompressStreamToStream: input and bytes delivered
    ver,      \* the verification pass after a PNG encode
    cli,      \* one run of the encode command: arguments and outcome
    rng,      \* TestRNG instances: counter and the bytes delivered so far
    cr,       \* a stored collection and the CollectionReader over it
    rs,       \* an RNG sub-source and the tasks calling its Read
    tw,       \* goroutines calling the TarChunkWriter functions, the locks they hold
    eg        \* EncodeDirectory's goroutines: serialiser, compressor, caller

padVars == <<pad, enc, colls, dec>>
serVars == <<ser, wire, des>>
tarVars == <<fsys, tarWriters, run>>
restVars == <<ein, icn, dcs, ver, cli, rng>>
vars == <<np, pad, enc, colls, dec, ser, wire, des, png, fsys, tarWriters, run, dd,
          ein, icn, dcs, ver, cli, rng, cr, rs, tw, eg>>

oldVars == <<np, padVars, serVars, png, tarVars, dd>>
lateVars == <<cr, rs, tw, eg>>

-----------------------------------------------------------------------------
(* Bounds of the model *)

\* largest N of an encoding that is run (NewPadForEncode is checked to 27)
MaxN == 3
\* longest plaintext stream, in bytes
MaxLen == 3
\* the byte values plaintexts are made of
PlainBytes == {0, 165}
\* largest chunk size handed to Pad.Encode
MaxChunk == 2
\* the start values of the TestRNG (from 255 the counter wraps at once)
RngStarts == {0, 255}

\* the largest number of collections NewPadForEncode accepts
MaxCopies == 26
\* the smallest number of collections, and of required collections
MinCopies == 2

-----------------------------------------------------------------------------
(* Bytes and text *)

Min(a, b) == IF a < b THEN a ELSE b

RECURSIVE XorBits(_, _, _)
XorBits(a, b, w) ==
    IF w = 0 THEN 0
    ELSE (((a % 2) + (b % 2)) % 2) + 2 * XorBits(a \div 2, b \div 2, w - 1)

\* the XOR of every two bytes, computed once
XorTable == [a \in 0..255 |-> [b \in 0..255 |-> XorBits(a, b, 8)]]

\* XOR of two bytes
XorByte(a, b) == XorTable[a][b]

\* XOR of two byte strings of one length
XorSeq(s, t) == [i \in 1..Len(s) |-> XorByte(s[i], t[i])]

\* the decimal digits of n, as ASCII codes (fmt %d)
RECURSIVE Digits(_)
Digits(n) == IF n < 10 THEN <<48 + n>> ELSE Digits(n \div 10) \o <<48 + (n % 10)>>

IsDigit(c) == c >= 48 /\ c <= 57
IsLetter(c) == (c >= 65 /\ c <= 90) \/ (c >= 97 /\ c <= 122)

\* the number of leading digits of s
RECURSIVE DigitPrefix(_)
DigitPrefix(s) ==
    IF s = <<>> \/ ~IsDigit(Head(s)) THEN 0 ELSE 1 + DigitPrefix(Tail(s))

\* the value of a string of digits
RECURSIVE Atoi(_)
Atoi(s) == IF s = <<>> THEN 0 ELSE 10 * Atoi(SubSeq(s, 1, Len(s) - 1)) + (s[Len(s)] - 48)

\* all strings of length 0..n over the alphabet B
RECURSIVE SeqsUpTo(_, _)
SeqsUpTo(n, B) ==
    IF n = 0 THEN {<<>>}
    ELSE LET shorter == SeqsUpTo(n - 1, B)
         IN  shorter \cup {Append(s, b) : s \in {t \in shorter : Len(t) = n - 1}, b \in B}

Range(s) == {s[i] : i \in 1..Len(s)}

-----------------------------------------------------------------------------
(* The pad scheme *)

\* the m-subsets of lo..n as sorted sequences, in lexicographic order
RECURSIVE CombosFrom(_, _, _)
CombosFrom(lo, n, m) ==
    IF m = 0 THEN << <<>> >>
    ELSE IF n - lo + 1 < m THEN << >>
    ELSE LET with == CombosFrom(lo + 1, n, m - 1)
         IN  [i \in 1..Len(with) |-> <<lo>> \o with[i]] \o CombosFrom(lo + 1, n, m)

\* slots that are the K-subsets of 1..N
SlotsOfSizeK(N, K) == LET c == CombosFrom(1, N, K) IN [j \in 1..Len(c) |-> Range(c[j])]

\* the pad slots of a K-of-N scheme: the (K-1)-subsets of 1..N as sets
SlotsOf(N, K) == LET c == CombosFrom(1, N, K - 1) IN [j \in 1..Len(c) |-> Range(c[j])]

\* the slots of the schemes the model runs, computed once
SlotTable == [N \in MinCopies..MaxN |-> [K \in MinCopies..N |-> SlotsOf(N, K)]]

Slots(N, K) == IF N \in MinCopies..MaxN /\ K \in MinCopies..N THEN SlotTable[N][K]
               ELSE SlotsOf(N, K)

\* the label of collection i of a K-of-N scheme: "<K><letter><N>"
CollectionLabel(K, i, N) == Digits(K) \o <<64 + i>> \o Digits(N)

\* the name of a frame: "<collection>-<chunk#>"
FrameName(label, chunk) == label \o <<45>> \o Digits(chunk)

NewPadForEncodeWrongBound(N, K) ==
    IF N < MinCopies \/ N >= MaxCopies \/ K < MinCopies \/ K > N
    THEN [err |-> "ErrParams", pad |-> <<>>]
    ELSE [err |-> "nil",
          pad |-> [TotalCopies |-> N, RequiredCopies |-> K,
                   Collections |-> [i \in 1..N |-> CollectionLabel(K, i, N)]]]

\* NewPadForEncode: the pad of a K-of-N scheme, or ErrParams
NewPadForEncode(N, K) ==
    IF N < MinCopies \/ N > MaxCopies \/ K < MinCopies \/ K > N
    THEN [err |-> "ErrParams", pad |-> <<>>]
    ELSE [err |-> "nil",
          pad |-> [TotalCopies |-> N, RequiredCopies |-> K,
                   Collections |-> [i \in 1..N |-> CollectionLabel(K, i, N)]]]

\* a counter that is not cut to a byte
TestRNGReadNoWrap(counter, n) ==
    [bytes |-> [i \in 1..n |-> counter + i - 1],
     counter |-> counter + n]

\* TestRNG.Read: n bytes counting up from the counter, modulo 256
TestRNGRead(counter, n) ==
    [bytes |-> [i \in 1..n |-> (counter + i - 1) % 256],
     counter |-> (counter + n) % 256]

\* the S-1 random pads of a chunk of length L: one RNG.Read per slot, in slot order
RandomPads(counter, S, L) ==
    [j \in 1..(S - 1) |-> TestRNGRead((counter + (j - 1) * L) % 256, L).bytes]

RECURSIVE XorAll(_, _)
XorAll(acc, ss) == IF ss = <<>> THEN acc ELSE XorAll(XorSeq(acc, Head(ss)), Tail(ss))

AllPadsPlainLast(P, rnd) == Append(rnd, P)

\* the pads of all S slots: the random ones, then plaintext XOR all of them
AllPads(P, rnd) == Append(rnd, XorAll(P, rnd))

SelectIdx(n, Keep(_)) ==
    LET RECURSIVE Sel(_)
        Sel(j) == IF j > n THEN <<>>
                  ELSE IF Keep(j) THEN <<j>> \o Sel(j + 1) ELSE Sel(j + 1)
    IN  Sel(1)

CarriedSlotsInverted(N, K, i) ==
    LET sl == Slots(N, K) IN SelectIdx(Len(sl), LAMBDA j : i \in sl[j])

\* the slots not holding i, in decreasing slot order
CarriedSlotsDecreasing(N, K, i) ==
    LET sl == Slots(N, K)
        up == SelectIdx(Len(sl), LAMBDA j : i \notin sl[j])
    IN  [m \in 1..Len(up) |-> up[Len(up) + 1 - m]]

\* the slots collection i carries, in increasing slot order: those not holding i
CarriedSlotsOf(N, K, i) ==
    LET sl == Slots(N, K) IN SelectIdx(Len(sl), LAMBDA j : i \notin sl[j])

CarriedTable ==
    [N \in MinCopies..MaxN |-> [K \in MinCopies..N |-> [i \in 1..N |-> CarriedSlotsOf(N, K, i)]]]

CarriedSlots(N, K, i) ==
    IF N \in MinCopies..MaxN /\ K \in MinCopies..N /\ i \in 1..N THEN CarriedTable[N][K][i]
    ELSE CarriedSlotsOf(N, K, i)

\* what Encode writes to the chunk writer of collection i for one chunk
CollectionChunk(p, i, chunk, pads) ==
    LET carried == CarriedSlots(p.TotalCopies, p.RequiredCopies, i)
    IN  [m \in 1..Len(carried) |->
            [name |-> FrameName(p.Collections[i], chunk),
             len |-> Len(pads[carried[m]]),
             payload |-> pads[carried[m]]]]

\* encode one chunk with the given random pads: the frames of every collection
EncodeChunkWith(p, chunk, P, rnd) ==
    [i \in 1..p.TotalCopies |-> CollectionChunk(p, i, chunk, AllPads(P, rnd))]


\* the position of the last '-' of a frame name, 0 when there is none
RECURSIVE LastDash(_)
LastDash(s) == IF s = <<>> THEN 0
               ELSE IF s[Len(s)] = 45 THEN Len(s)
               ELSE LastDash(SubSeq(s, 1, Len(s) - 1))

\* the index a collection letter stands for (A = a = 1)
LetterIndex(c) == IF c >= 97 THEN c - 96 ELSE c - 64

\* a frame name "<K><letter><N>-<chunk#>" taken apart
ParseFrameName(name) ==
    LET dash  == LastDash(name)
        label == SubSeq(name, 1, dash - 1)
        num   == SubSeq(name, dash + 1, Len(name))
        kd    == DigitPrefix(label)
        rest  == SubSeq(label, kd + 2, Len(label))
        bad   == [ok |-> FALSE, K |-> 0, idx |-> 0, N |-> 0, chunk |-> 0]
    IN  IF Len(name) = 0 \/ Len(name) > 64 \/ dash < 2 THEN bad
        ELSE IF num = <<>> \/ DigitPrefix(num) # Len(num) THEN bad
        ELSE IF kd = 0 \/ kd + 1 > Len(label) \/ ~IsLetter(label[kd + 1]) THEN bad
        ELSE IF rest = <<>> \/ DigitPrefix(rest) # Len(rest) THEN bad
        ELSE [ok |-> TRUE, K |-> Atoi(SubSeq(label, 1, kd)),
              idx |-> LetterIndex(label[kd + 1]), N |-> Atoi(rest), chunk |-> Atoi(num)]

Zeros(L) == [i \in 1..L |-> 0]

CombineSlotsSkipMissing(d, L, cps) ==
    IF \E j \in 1..Len(cps) : Cardinality(cps[j]) > 1
    THEN [d EXCEPT !.pc = "Error", !.err = "ErrCollectionMismatch"]
    ELSE [d EXCEPT !.pos = d.pos + 1,
                   !.out = d.out \o XorAll(Zeros(L),
                              [j \in 1..Len(cps) |->
                                  IF cps[j] = {} THEN Zeros(L) ELSE CHOOSE x \in cps[j] : TRUE])]

\* the copies collected for every slot of a chunk, combined into its plaintext:
\* a slot no reader carries is ErrShortCollection, differing copies of one slot
\* are ErrCollectionMismatch, and the XOR of all S pads is the plaintext
CombineSlots(d, L, cps) ==
    IF \E j \in 1..Len(cps) : cps[j] = {}
    THEN [d EXCEPT !.pc = "Error", !.err = "ErrShortCollection"]
    ELSE IF \E j \in 1..Len(cps) : Cardinality(cps[j]) > 1
    THEN [d EXCEPT !.pc = "Error", !.err = "ErrCollectionMismatch"]
    ELSE [d EXCEPT !.pos = d.pos + 1,
                   !.out = d.out \o XorAll(Zeros(L),
                              [j \in 1..Len(cps) |-> CHOOSE x \in cps[j] : TRUE])]

\* decode one chunk without comparing the K and N of its frames with the
\* pinned ones
DecodeChunkAnyLabel(d, chunks) ==
    LET m     == Len(chunks)
        first == ParseFrameName(chunks[1][1].name)
        K0    == IF d.K = 0 THEN first.K ELSE d.K
        N0    == IF d.N = 0 THEN first.N ELSE d.N
        L     == chunks[1][1].len
        FrameOK(f) ==
            LET q == ParseFrameName(f.name)
            IN  /\ q.ok
                /\ q.chunk = first.chunk
                /\ q.idx >= 1 /\ q.idx <= N0
                /\ f.len = L /\ Len(f.payload) = L
        idx(r)     == ParseFrameName(chunks[r][1].name).idx
        carried(r) == CarriedSlots(N0, K0, idx(r))
        sl         == Slots(N0, K0)
        copies(j)  == {chunks[r][c].payload :
                         <<r, c>> \in {x \in (1..m) \X (1..Len(sl)) :
                                         /\ x[2] <= Len(chunks[x[1]])
                                         /\ carried(x[1])[x[2]] = j}}
        fail(e)    == [d EXCEPT !.pc = "Error", !.err = e]
    IN  IF ~first.ok \/ K0 < MinCopies \/ N0 > MaxCopies \/ K0 > N0 THEN fail("ErrFrame")
        ELSE IF \E r \in 1..m : \E c \in 1..Len(chunks[r]) : ~FrameOK(chunks[r][c])
             THEN fail("ErrFrame")
        ELSE IF \E r \in 1..m : Len(chunks[r]) # Len(carried(r)) THEN fail("ErrFrame")
        ELSE CombineSlots([d EXCEPT !.K = K0, !.N = N0], L, [j \in 1..Len(sl) |-> copies(j)])

\* decode one chunk: chunks[r] is the frame sequence reader r delivers for it
DecodeChunk(d, chunks) ==
    LET m     == Len(chunks)
        first == ParseFrameName(chunks[1][1].name)
        K0    == IF d.K = 0 THEN first.K ELSE d.K
        N0    == IF d.N = 0 THEN first.N ELSE d.N
        L     == chunks[1][1].len
        FrameOK(f) ==
            LET q == ParseFrameName(f.name)
            IN  /\ q.ok
                /\ q.K = K0 /\ q.N = N0
                /\ q.chunk = first.chunk
                /\ q.idx >= 1 /\ q.idx <= N0
                /\ f.len = L /\ Len(f.payload) = L
        idx(r)     == ParseFrameName(chunks[r][1].name).idx
        carried(r) == CarriedSlots(N0, K0, idx(r))
        sl         == Slots(N0, K0)
        copies(j)  == {chunks[r][c].payload :
                         <<r, c>> \in {x \in (1..m) \X (1..Len(sl)) :
                                         /\ x[2] <= Len(chunks[x[1]])
                                         /\ carried(x[1])[x[2]] = j}}
        fail(e)    == [d EXCEPT !.pc = "Error", !.err = e]
    IN  IF ~first.ok \/ K0 < MinCopies \/ N0 > MaxCopies \/ K0 > N0 THEN fail("ErrFrame")
        ELSE IF \E r \in 1..m : \E c \in 1..Len(chunks[r]) : ~FrameOK(chunks[r][c])
             THEN fail("ErrFrame")
        ELSE IF \E r \in 1..m : Len(chunks[r]) # Len(carried(r)) THEN fail("ErrFrame")
        ELSE CombineSlots([d EXCEPT !.K = K0, !.N = N0], L, [j \in 1..Len(sl) |-> copies(j)])

\* a round of Decode that ends the run as soon as one reader is at EOF
DecodeNextAnyEOF(d, cs) ==
    LET m       == Len(d.readers)
        atEOF(r) == d.pos > Len(cs[d.readers[r]])
    IN  IF \E r \in 1..m : atEOF(r) THEN [d EXCEPT !.pc = "Done"]
        ELSE DecodeChunk(d, [r \in 1..m |-> cs[d.readers[r]][d.pos]])

\* one round of Decode: the next chunk of every reader, or the end of the streams
DecodeNext(d, cs) ==
    LET m       == Len(d.readers)
        atEOF(r) == d.pos > Len(cs[d.readers[r]])
    IN  IF \A r \in 1..m : atEOF(r) THEN [d EXCEPT !.pc = "Done"]
        ELSE IF \E r \in 1..m : atEOF(r)
             THEN [d EXCEPT !.pc = "Error", !.err = "ErrShortCollection"]
        ELSE DecodeChunk(d, [r \in 1..m |-> cs[d.readers[r]][d.pos]])

-----------------------------------------------------------------------------
(* SpecNewPad: NewPadForEncode on every (N, K) around the accepted range *)

NpIdle == np = <<>>
PadIdle == pad = <<>> /\ enc = <<>> /\ colls = <<>> /\ dec = <<>>

SerIdle == ser = <<>> /\ wire = <<>> /\ des = <<>>
PngIdle == png = <<>>
TarIdle == fsys = <<>> /\ tarWriters = <<>> /\ run = <<>>
DdIdle == dd = <<>>
EinIdle == ein = <<>>
IcnIdle == icn = <<>>
DcsIdle == dcs = <<>>
VerIdle == ver = <<>>
CliIdle == cli = <<>>
RngIdle == rng = <<>>
RestIdle == EinIdle /\ IcnIdle /\ DcsIdle /\ VerIdle /\ CliIdle /\ RngIdle
OldIdle == NpIdle /\ PadIdle /\ SerIdle /\ PngIdle /\ TarIdle /\ DdIdle
CrIdle == cr = <<>>
RsIdle == rs = <<>>
TwIdle == tw = <<>>
EgIdle == eg = <<>>
LateIdle == CrIdle /\ RsIdle /\ TwIdle /\ EgIdle

NewPadInit ==
    /\ np \in [N : 0..(MaxCopies + 1), K : 0..(MaxCopies + 2), pc : {"call"}, res : {<<>>}]
    /\ PadIdle /\ SerIdle /\ PngIdle /\ TarIdle /\ DdIdle /\ RestIdle /\ LateIdle

NewPadCall ==
    /\ np # <<>> /\ np.pc = "call"
    /\ np' = [np EXCEPT !.pc = "returned", !.res = NewPadForEncode(np.N, np.K)]
    /\ UNCHANGED <<padVars, serVars, png, tarVars, dd, restVars, lateVars>>

SpecNewPad == NewPadInit /\ [][NewPadCall]_vars

-----------------------------------------------------------------------------
(* SpecPad: Pad.Encode of a byte stream, then Pad.Decode from a set of readers *)

PadInit ==
    /\ NpIdle /\ SerIdle /\ PngIdle /\ TarIdle /\ DdIdle /\ RestIdle /\ LateIdle
    /\ \E N \in MinCopies..MaxN : \E K \in MinCopies..N :
          /\ pad = NewPadForEncode(N, K).pad
          /\ colls = [i \in 1..N |-> <<>>]
    /\ \E P \in SeqsUpTo(MaxLen, PlainBytes) : \E c \in 1..MaxChunk : \E s \in RngStarts :
          enc = [pc |-> "Fresh", plain |-> P, input |-> P, buf |-> <<>>,
                 chunkSize |-> c, chunkNum |-> 0, rng |-> s, short |-> FALSE,
                 lastPlain |-> <<>>, lastRnd |-> <<>>]
    /\ dec = [pc |-> "Idle", readers |-> <<>>, pos |-> 1, K |-> 0, N |-> 0,
              out |-> <<>>, err |-> "nil"]

EncodeRunning == pad # <<>> /\ enc.pc \in {"Fresh", "Streaming"}

\* the input reader (a pipe) delivers 1..n of the n bytes asked for
EncodeRead ==
    /\ EncodeRunning
    /\ Len(enc.buf) < enc.chunkSize /\ enc.input # <<>>
    /\ \E n \in 1..Min(enc.chunkSize - Len(enc.buf), Len(enc.input)) :
          enc' = [enc EXCEPT !.buf = enc.buf \o SubSeq(enc.input, 1, n),
                             !.input = SubSeq(enc.input, n + 1, Len(enc.input)),
                             !.short = enc.short \/
                                       n < Min(enc.chunkSize - Len(enc.buf), Len(enc.input))]
    /\ UNCHANGED <<np, pad, colls, dec, serVars, png, tarVars, dd, restVars, lateVars>>

ChunkReadySingleRead(e) == e.buf # <<>>

\* the chunk buffer is handed to the pad scheme when it is full or the input ended
ChunkReady(e) == e.buf # <<>> /\ (Len(e.buf) = e.chunkSize \/ e.input = <<>>)

\* Encode where the random source is read once more after a short read of
\* the input
EncodeEmitPerRead ==
    /\ EncodeRunning
    /\ ChunkReady(enc)
    /\ LET S   == Len(Slots(pad.TotalCopies, pad.RequiredCopies))
           L   == Len(enc.buf)
           rnd == RandomPads((enc.rng + (IF enc.short THEN 1 ELSE 0)) % 256, S, L)
           out == EncodeChunkWith(pad, enc.chunkNum + 1, enc.buf, rnd)
       IN  /\ colls' = [i \in 1..pad.TotalCopies |-> Append(colls[i], out[i])]
           /\ enc' = [enc EXCEPT !.pc = "Streaming", !.buf = <<>>,
                                 !.chunkNum = enc.chunkNum + 1,
                                 !.rng = (enc.rng + (S - 1) * L) % 256,
                                 !.lastPlain = enc.buf, !.lastRnd = rnd]
    /\ UNCHANGED <<np, pad, dec, serVars, png, tarVars, dd, restVars, lateVars>>

EncodeEmit ==
    /\ EncodeRunning
    /\ ChunkReady(enc)
    /\ LET S   == Len(Slots(pad.TotalCopies, pad.RequiredCopies))
           L   == Len(enc.buf)
           rnd == RandomPads(enc.rng, S, L)
           out == EncodeChunkWith(pad, enc.chunkNum + 1, enc.buf, rnd)
       IN  /\ colls' = [i \in 1..pad.TotalCopies |-> Append(colls[i], out[i])]
           /\ enc' = [enc EXCEPT !.pc = "Streaming", !.buf = <<>>,
                                 !.chunkNum = enc.chunkNum + 1,
                                 !.rng = (enc.rng + (S - 1) * L) % 256,
                                 !.lastPlain = enc.buf, !.lastRnd = rnd]
    /\ UNCHANGED <<np, pad, dec, serVars, png, tarVars, dd, restVars, lateVars>>

EncodeFinish ==
    /\ EncodeRunning
    /\ enc.buf = <<>> /\ enc.input = <<>>
    /\ enc' = [enc EXCEPT !.pc = "Done"]
    /\ UNCHANGED <<np, pad, colls, dec, serVars, png, tarVars, dd, restVars, lateVars>>

\* Decode is handed the readers of any non-empty set of the collections
DecodeStart ==
    /\ pad # <<>> /\ enc.pc = "Done" /\ dec.pc = "Idle"
    /\ \E D \in SUBSET (1..pad.TotalCopies) \ {{}} :
          dec' = [dec EXCEPT !.pc = "Running",
                             !.readers = SelectIdx(pad.TotalCopies, LAMBDA i : i \in D)]
    /\ UNCHANGED <<np, pad, enc, colls, serVars, png, tarVars, dd, restVars, lateVars>>

DecodeStep ==
    /\ pad # <<>> /\ dec.pc = "Running"
    /\ dec' = DecodeNext(dec, colls)
    /\ UNCHANGED <<np, pad, enc, colls, serVars, png, tarVars, dd, restVars, lateVars>>

PadNext == EncodeRead \/ EncodeEmit \/ EncodeFinish \/ DecodeStart \/ DecodeStep

SpecPad == PadInit /\ [][PadNext]_vars

-----------------------------------------------------------------------------
(* Properties of the pad scheme *)

SubsetsOfSize(S, n) == {T \in SUBSET S : Cardinality(T) = n}

CeilDiv(a, b) == (a + b - 1) \div b

AltOutcomes(rnd, delta) ==
    {rnd} \cup {[rnd EXCEPT ![j] = XorSeq(rnd[j], delta)] : j \in 1..Len(rnd)}

\* C2: what any K-1 collections receive for a chunk does not depend on the
\* plaintext: for every set R of K-1 collections and every plaintext P' of the
\* chunk's length there is an RNG outcome under which encoding P' emits to
\* every collection of R the very frames the chunk just encoded emitted.
C2_SecrecyOfKMinus1 ==
    (pad # <<>> /\ enc.pc = "Streaming" /\ enc.buf = <<>>) =>
        \A R \in SubsetsOfSize(1..pad.TotalCopies, pad.RequiredCopies - 1) :
        \A P2 \in {Q \in SeqsUpTo(MaxChunk, PlainBytes) : Len(Q) = Len(enc.lastPlain)} :
        \E rnd2 \in AltOutcomes(enc.lastRnd, XorSeq(enc.lastPlain, P2)) :
        \A i \in R :
            CollectionChunk(pad, i, enc.chunkNum, AllPads(P2, rnd2))
                = colls[i][enc.chunkNum]

\* a chunk of a 2-of-3 or 3-of-3 scheme with a non-zero plaintext byte was encoded
C2_Witness ==
    /\ pad # <<>> /\ enc.pc = "Streaming" /\ enc.buf = <<>>
    /\ pad.TotalCopies = 3
    /\ \E i \in 1..Len(enc.lastPlain) : enc.lastPlain[i] # 0

C4_NewPadParams ==
    (np # <<>> /\ np.pc = "returned") =>
        LET bad == np.N < 2 \/ np.N > 26 \/ np.K < 2 \/ np.K > np.N
        IN  /\ bad => (np.res.err # "nil" /\ np.res.pad = <<>>)
            /\ ~bad => /\ np.res.err = "nil"
                       /\ np.res.pad.TotalCopies = np.N
                       /\ np.res.pad.RequiredCopies = np.K
                       /\ Len(np.res.pad.Collections) = np.N
                       /\ \A i, j \in 1..np.N :
                             i # j => np.res.pad.Collections[i] # np.res.pad.Collections[j]

\* NewPadForEncode(26, 26) has returned a pad
C4_Witness ==
    /\ np # <<>> /\ np.pc = "returned"
    /\ np.N = 26 /\ np.K = 26 /\ np.res.err = "nil"

\* the plaintext length a chunk written to a collection carries
ChunkPlainLen(ch) == ch[1].len

RECURSIVE EncodeStreams(_, _, _, _, _)
EncodeStreams(p, chunkSize, P, s, chunk) ==
    IF P = <<>> THEN [i \in 1..p.TotalCopies |-> <<>>]
    ELSE LET L    == Min(chunkSize, Len(P))
             S    == Len(Slots(p.TotalCopies, p.RequiredCopies))
             out  == EncodeChunkWith(p, chunk, SubSeq(P, 1, L), RandomPads(s, S, L))
             rest == EncodeStreams(p, chunkSize, SubSeq(P, L + 1, Len(P)),
                                   (s + (S - 1) * L) % 256, chunk + 1)
         IN  [i \in 1..p.TotalCopies |-> <<out[i]>> \o rest[i]]

\* the counter the random source of the run started from
RngStartOf(e) ==
    (e.rng + 256 * Len(e.plain) * Len(Slots(pad.TotalCopies, pad.RequiredCopies))
       - (Len(Slots(pad.TotalCopies, pad.RequiredCopies)) - 1) * (Len(e.plain) - Len(e.input) - Len(e.buf))) % 256

RECURSIVE SumLens(_)
SumLens(ss) == IF ss = <<>> THEN 0 ELSE Len(Head(ss)) + SumLens(Tail(ss))

\* the binomial coefficient C(n, k)
RECURSIVE Binomial(_, _)
Binomial(n, k) ==
    IF k < 0 \/ k > n THEN 0
    ELSE IF k = 0 \/ k = n THEN 1
    ELSE Binomial(n - 1, k - 1) + Binomial(n - 1, k)

\* the m-th smallest member of a set of numbers
RECURSIVE NthSmallest(_, _)
NthSmallest(T, m) ==
    LET lo == CHOOSE x \in T : \A y \in T : x <= y
    IN  IF m = 1 THEN lo ELSE NthSmallest(T \ {lo}, m - 1)

\* the frames the last chunk put into collection i
LastChunkFrames(i) == colls[i][enc.chunkNum]

\* C20: for every chunk, collection i gets the pad of slot j exactly once
\* when i is not in the subset s_j and never when it is, in increasing slot
\* order; so each collection gets C(N-1,K-1) payloads and the N collections
\* together C(N,K-1)*(N-K+1) per chunk.
C20_SlotDistribution ==
    (pad # <<>> /\ enc.chunkNum >= 1) =>
        LET N    == pad.TotalCopies
            K    == pad.RequiredCopies
            sl   == Slots(N, K)
            pads == AllPads(enc.lastPlain, enc.lastRnd)
            Due(i) == {j \in 1..Len(sl) : i \notin sl[j]}
        IN  /\ Len(sl) = Binomial(N, K - 1)
            /\ \A i \in 1..N :
                  /\ Len(LastChunkFrames(i)) = Cardinality(Due(i))
                  /\ Len(LastChunkFrames(i)) = Binomial(N - 1, K - 1)
                  /\ \A m \in 1..Len(LastChunkFrames(i)) :
                        LastChunkFrames(i)[m].payload = pads[NthSmallest(Due(i), m)]
            /\ SumLens([i \in 1..N |-> LastChunkFrames(i)])
                  = Binomial(N, K - 1) * (N - K + 1)

\* a chunk of a 2-of-3 scheme has been emitted: every collection carries two
\* of the three slots, with different payloads
C20_Witness ==
    /\ pad # <<>> /\ enc.chunkNum >= 1
    /\ pad.TotalCopies = 3 /\ pad.RequiredCopies = 2
    /\ \A i \in 1..3 : /\ Len(LastChunkFrames(i)) = 2
                         /\ LastChunkFrames(i)[1].payload # LastChunkFrames(i)[2].payload

\* the slot that holds plaintext XOR the random pads: the last one
InjectionSlot(N, K) == Len(Slots(N, K))

\* a decode from exactly K readers is under way or over
DecodingFromK == pad # <<>> /\ dec.pc # "Idle" /\ Len(dec.readers) = pad.RequiredCopies

\* the slots whose subset shares no member with the set D of collections
DisjointSlots(N, K, D) == {j \in 1..Len(Slots(N, K)) : Slots(N, K)[j] \cap D = {}}

-----------------------------------------------------------------------------
(* SpecSer: SerializeDirectoryToStream, gzip, DecompressStreamToStream and   *)
(* DeserializeDirectoryFromStream into an empty output directory             *)

\* the relative paths a tree may hold (a, a/b and c, as bytes), in the lexical
\* order filepath.Walk visits them
WalkOrder == << <<97>>, <<97, 47, 98>>, <<99>> >>
Paths == Range(WalkOrder)

\* the directory a path lies in (<<>> is the root of the tree)
Parent(p) == IF p = <<97, 47, 98>> THEN <<97>> ELSE <<>>

\* permission bits, in decimal: files 0644 and 0664, directories 0755 and
\* 0700, the process umask 0 or 022
FileModes == {420, 436}
DirModes == {493, 448}
Umasks == {0, 18}

\* 0755, the mode streamTarToDirectory gives a missing parent directory
Mode0755 == 493

NoEntry == [kind |-> "none"]
FileEntries == [kind : {"file"}, mode : FileModes, data : {<<>>, <<7>>}]
DirEntries == [kind : {"dir"}, mode : DirModes]
LinkEntry == [kind |-> "symlink"]

\* the directory trees of the model: a/b exists only inside a directory a
Trees ==
    {t \in [Paths -> {NoEntry, LinkEntry} \cup FileEntries \cup DirEntries] :
        (t[<<97, 47, 98>>] # NoEntry => t[<<97>>].kind = "dir")}

\* mode AND NOT umask, over the nine permission bits
RECURSIVE MaskBits(_, _, _)
MaskBits(mode, umask, w) ==
    IF w = 0 THEN 0
    ELSE (IF umask % 2 = 1 THEN 0 ELSE mode % 2)
         + 2 * MaskBits(mode \div 2, umask \div 2, w - 1)

ApplyUmask(mode, umask) == MaskBits(mode, umask, 9)

\* the tar entry filepath.Walk's callback writes for an entry of the tree
TarEntry(p, e) ==
    IF e.kind = "dir"
    THEN [Name |-> p, Typeflag |-> "dir", Mode |-> e.mode, Size |-> 0, Data |-> <<>>]
    ELSE [Name |-> p, Typeflag |-> "reg", Mode |-> e.mode, Size |-> Len(e.data),
          Data |-> e.data]

CeilDivSer(n) == (n + 511) \div 512

\* the length in bytes of a tar stream: a 512-byte header and the data padded
\* to 512 bytes per entry, and two zero blocks at the end
RECURSIVE TarLen(_)
TarLen(entries) ==
    IF entries = <<>> THEN 1024
    ELSE 512 + 512 * CeilDivSer(Head(entries).Size) + TarLen(Tail(entries))

\* the first two bytes of a tar stream: of the first name, NUL-padded
TarFirst2(entries) ==
    IF entries = <<>> THEN <<0, 0>>
    ELSE LET n == Head(entries).Name
         IN  <<n[1], IF Len(n) >= 2 THEN n[2] ELSE 0>>

\* gzip.Writer: the magic bytes 1f 8b, then the deflated stream
Gzip(stream) == [first2 |-> <<31, 139>>, len |-> 18 + stream.len, kind |-> "gzip",
                 body |-> stream]

TarStream(entries) ==
    [first2 |-> TarFirst2(entries), len |-> TarLen(entries), kind |-> "tar",
     entries |-> entries]

SerInit ==
    /\ NpIdle /\ PadIdle /\ PngIdle /\ TarIdle /\ DdIdle /\ RestIdle /\ LateIdle
    /\ \E t \in Trees :
          ser = [pc |-> "walking", tree |-> t, tar |-> <<>>,
                 walk |-> SelectSeq(WalkOrder, LAMBDA p : t[p] # NoEntry)]
    /\ wire = [stage |-> "none"]
    /\ \E u \in Umasks :
          des = [pc |-> "idle", umask |-> u, out |-> [p \in Paths |-> NoEntry],
                 rest |-> <<>>, fileCount |-> 0, err |-> "nil"]

\* filepath.Walk's callback on the next path below the input directory: a
\* symlink is skipped, everything else gets a header and, a file, its data
SerWalk ==
    /\ ser # <<>> /\ ser.pc = "walking" /\ ser.walk # <<>>
    /\ LET p == Head(ser.walk)
           e == ser.tree[p]
       IN  ser' = [ser EXCEPT !.walk = Tail(ser.walk),
                              !.tar = IF e.kind = "symlink" THEN ser.tar
                                      ELSE Append(ser.tar, TarEntry(p, e))]
    /\ UNCHANGED <<np, padVars, png, tarVars, dd, wire, des, restVars, lateVars>>

\* the end of the walk: tw.Close writes the trailer, pw.Close ends the stream
SerClose ==
    /\ ser # <<>> /\ ser.pc = "walking" /\ ser.walk = <<>>
    /\ ser' = [ser EXCEPT !.pc = "done"]
    /\ wire' = [stage |-> "tar", stream |-> TarStream(ser.tar)]
    /\ UNCHANGED <<np, padVars, png, tarVars, dd, des, restVars, lateVars>>

\* CompressStreamToStream
Compress ==
    /\ wire # <<>> /\ wire.stage = "tar"
    /\ wire' = [stage |-> "gzip", stream |-> Gzip(wire.stream)]
    /\ UNCHANGED <<np, padVars, png, tarVars, dd, ser, des, restVars, lateVars>>

\* DecompressStreamToStream: a stream beginning 1f 8b is gunzipped, any other
\* is passed through
DecompressStream(stream) ==
    IF stream.len >= 2 /\ stream.first2 = <<31, 139>>
    THEN IF stream.kind = "gzip" THEN [err |-> "nil", stream |-> stream.body]
         ELSE [err |-> "gzip: invalid header", stream |-> stream]
    ELSE [err |-> "nil", stream |-> stream]

Decompress ==
    /\ wire # <<>> /\ wire.stage = "gzip"
    /\ LET r == DecompressStream(wire.stream)
       IN  wire' = [stage |-> IF r.err = "nil" THEN "plain" ELSE "error",
                    stream |-> r.stream]
    /\ UNCHANGED <<np, padVars, png, tarVars, dd, ser, des, restVars, lateVars>>

\* DeserializeDirectoryFromStream up to the first tar entry: a stream shorter
\* than 512 bytes is saved as one raw file, a stream beginning 1f 8b is
\* gunzipped first, any other is read as tar
DeserOpen ==
    /\ wire # <<>> /\ wire.stage = "plain" /\ des.pc = "idle"
    /\ LET st == wire.stream
       IN  des' = IF st.len < 512
                  THEN [des EXCEPT !.pc = "done", !.err = "raw"]
                  ELSE IF st.first2 = <<31, 139>>
                  THEN IF st.kind = "gzip" /\ st.body.kind = "tar"
                       THEN [des EXCEPT !.pc = "extract", !.rest = st.body.entries]
                       ELSE [des EXCEPT !.pc = "error",
                                        !.err = "failed to create gzip reader"]
                  ELSE [des EXCEPT !.pc = "extract", !.rest = st.entries]
    /\ UNCHANGED <<np, padVars, png, tarVars, dd, ser, wire, restVars, lateVars>>

\* os.MkdirAll(path, mode): the directory and its missing parents
MkdirAll(out, p, mode, umask) ==
    [q \in Paths |->
        IF (q = p \/ q = Parent(p)) /\ out[q].kind = "none"
        THEN [kind |-> "dir", mode |-> ApplyUmask(mode, umask)]
        ELSE out[q]]

\* streamTarToDirectory on one tar entry
ExtractEntry(d, h) ==
    IF h.Typeflag = "dir"
    THEN [d EXCEPT !.out = MkdirAll(d.out, h.Name, h.Mode, d.umask), !.rest = Tail(d.rest)]
    ELSE LET made == IF Parent(h.Name) = <<>> THEN d.out
                     ELSE MkdirAll(d.out, Parent(h.Name), Mode0755, d.umask)
         IN  [d EXCEPT !.out = [made EXCEPT ![h.Name] =
                                   [kind |-> "file", mode |-> ApplyUmask(h.Mode, d.umask),
                                    data |-> h.Data]],
                       !.rest = Tail(d.rest), !.fileCount = d.fileCount + 1]

DeserEntry ==
    /\ des # <<>> /\ des.pc = "extract" /\ des.rest # <<>>
    /\ des' = ExtractEntry(des, Head(des.rest))
    /\ UNCHANGED <<np, padVars, png, tarVars, dd, ser, wire, restVars, lateVars>>

\* streamTarToDirectory at the end of the archive
ExtractEnd(d) ==
    IF d.fileCount = 0
    THEN [d EXCEPT !.pc = "error", !.err = "no files found in tar archive"]
    ELSE [d EXCEPT !.pc = "done"]

DeserEOF ==
    /\ des # <<>> /\ des.pc = "extract" /\ des.rest = <<>>
    /\ des' = ExtractEnd(des)
    /\ UNCHANGED <<np, padVars, png, tarVars, dd, ser, wire, restVars, lateVars>>

SerNext == SerWalk \/ SerClose \/ Compress \/ Decompress \/ DeserOpen \/ DeserEntry \/ DeserEOF

SpecSer == SerInit /\ [][SerNext]_vars

\* the tree a round trip is to recreate: the input without its symlinks
ExpectedTree(t) == [p \in Paths |-> IF t[p].kind = "symlink" THEN NoEntry ELSE t[p]]

SerFinished == des # <<>> /\ (des.pc \in {"done", "error"} \/ wire.stage = "error")

\* C5: for every directory tree, an empty one and one of sub-directories only
\* included, serialising, gzipping, decompressing and deserialising into an
\* empty output directory succeeds and recreates the same relative paths, file
\* contents and modes, without the symlinks.
C5_DirectoryRoundTrip ==
    SerFinished => (des.pc = "done" /\ des.err = "nil" /\ des.out = ExpectedTree(ser.tree))

-----------------------------------------------------------------------------
(* SpecPNG: encodePNGWithData, a single-bit change inside the rAWd payload,  *)
(* and ExtractDataFromPNG                                                    *)

MaxPayload == 4

\* payload bytes: the four letters of the chunk type, so that a payload can
\* repeat the marker ExtractDataFromPNG searches for
PayloadBytes == {114, 65, 87, 100}

RawdType == <<114, 65, 87, 100>>
IendType == <<73, 69, 78, 68>>

\* the encoding of the 1x1 transparent image: signature, IHDR, IDAT, IEND
PngImage ==
    << 137, 80, 78, 71, 13, 10, 26, 10,
       0, 0, 0, 13, 73, 72, 68, 82, 0, 0, 0, 1, 0, 0, 0, 1, 8, 6, 0, 0, 0,
       31, 21, 196, 137,
       0, 0, 0, 11, 73, 68, 65, 84, 120, 156, 99, 96, 0, 2, 0, 0, 5, 0, 1,
       122, 94, 171, 63,
       0, 0, 0, 0, 73, 69, 78, 68, 174, 66, 96, 130 >>

\* bytes.Index: the 0-based offset of the first occurrence of pat, or -1
BytesIndex(all, pat) ==
    LET hits == {i \in 0..(Len(all) - Len(pat)) :
                    SubSeq(all, i + 1, i + Len(pat)) = pat}
    IN  IF hits = {} THEN -1 ELSE CHOOSE i \in hits : \A j \in hits : i <= j

\* a 32-bit word is kept as its two 16-bit halves <<hi, lo>>
Xor16(a, b) == XorByte(a % 256, b % 256) + 256 * XorByte(a \div 256, b \div 256)
Xor32(a, b) == <<Xor16(a[1], b[1]), Xor16(a[2], b[2])>>
Shr32(a, n) == <<a[1] \div (2 ^ n), (a[2] \div (2 ^ n)) + (a[1] % (2 ^ n)) * (2 ^ (16 - n))>>

\* the reflected IEEE polynomial edb88320
CrcPolyHi == 60856
CrcPolyLo == 33568

RECURSIVE CrcRounds(_, _)
CrcRounds(c, n) ==
    IF n = 0 THEN c
    ELSE CrcRounds(IF c[2] % 2 = 1 THEN Xor32(Shr32(c, 1), <<CrcPolyHi, CrcPolyLo>>)
                   ELSE Shr32(c, 1), n - 1)

CrcTable == [i \in 0..255 |-> CrcRounds(<<0, i>>, 8)]

RECURSIVE CrcUpdate(_, _)
CrcUpdate(c, bs) ==
    IF bs = <<>> THEN c
    ELSE CrcUpdate(Xor32(CrcTable[XorByte(c[2] % 256, Head(bs))], Shr32(c, 8)), Tail(bs))

\* crc32.NewIEEE over the bytes written, Sum32 as four big-endian bytes
Crc32Bytes(bs) ==
    LET c == Xor32(CrcUpdate(<<65535, 65535>>, bs), <<65535, 65535>>)
    IN  <<c[1] \div 256, c[1] % 256, c[2] \div 256, c[2] % 256>>

\* binary.BigEndian.PutUint32 of a length
PutUint32(n) == <<(n \div 16777216) % 256, (n \div 65536) % 256, (n \div 256) % 256, n % 256>>

encodePNGWithData(data) ==
    LET iendPos == BytesIndex(PngImage, IendType) - 4
    IN  SubSeq(PngImage, 1, iendPos)
        \o PutUint32(Len(data)) \o RawdType \o data \o Crc32Bytes(RawdType \o data)
        \o SubSeq(PngImage, iendPos + 1, Len(PngImage))

\* what ExtractDataFromPNG does once the chunk is located: length, bounds, CRC
ExtractAt(all, chunkPos, checkCrc) ==
    LET lengthBuf == SubSeq(all, chunkPos - 3, chunkPos)
        length    == lengthBuf[2] * 65536 + lengthBuf[3] * 256 + lengthBuf[4]
        dataStart == chunkPos + 4
        dataEnd   == dataStart + length
        extracted == SubSeq(all, dataStart + 1, dataEnd)
    \* a length of 2^24 or more lies past the end of every file of the model
    IN  IF lengthBuf[1] # 0 \/ dataEnd > Len(all)
        THEN [err |-> "invalid PNG chunk length, out of range", data |-> <<>>]
        ELSE IF dataEnd + 4 > Len(all)
        THEN [err |-> "invalid chunk: no CRC found", data |-> <<>>]
        ELSE IF checkCrc /\ Crc32Bytes(RawdType \o extracted) # SubSeq(all, dataEnd + 1, dataEnd + 4)
        THEN [err |-> "CRC mismatch in 'rAWd' chunk", data |-> <<>>]
        ELSE [err |-> "nil", data |-> extracted]

ExtractWith(all, checkCrc) ==
    LET chunkPos == BytesIndex(all, RawdType)
    IN  IF chunkPos = -1 THEN [err |-> "'rAWd' chunk not found", data |-> <<>>]
        ELSE IF chunkPos < 4
        THEN [err |-> "invalid structure, chunk at offset <4", data |-> <<>>]
        ELSE ExtractAt(all, chunkPos, checkCrc)

ExtractDataFromPNGNoCrc(all) == ExtractWith(all, FALSE)

ExtractDataFromPNG(all) == ExtractWith(all, TRUE)

PngInit ==
    /\ NpIdle /\ PadIdle /\ SerIdle /\ TarIdle /\ DdIdle /\ RestIdle /\ LateIdle
    /\ \E d \in SeqsUpTo(MaxPayload, PayloadBytes) :
          png = [pc |-> "new", data |-> d, bytes |-> <<>>, flipped |-> <<>>, res |-> <<>>]

\* the formatter writes the payload as a PNG file
PngWrite ==
    /\ png # <<>> /\ png.pc = "new"
    /\ png' = [png EXCEPT !.pc = "written", !.bytes = encodePNGWithData(png.data)]
    /\ UNCHANGED <<np, padVars, serVars, tarVars, dd, restVars, lateVars>>

\* one bit of one payload byte of the stored file changes
PngTamper ==
    /\ png # <<>> /\ png.pc = "written" /\ png.flipped = <<>>
    /\ \E j \in 1..Len(png.data), k \in 0..7 :
          LET at == BytesIndex(png.bytes, RawdType) + 4 + j
          IN  png' = [png EXCEPT !.flipped = <<j, k>>,
                                 !.bytes[at] = XorByte(png.bytes[at], 2 ^ k)]
    /\ UNCHANGED <<np, padVars, serVars, tarVars, dd, restVars, lateVars>>

\* the formatter reads the file back
PngRead ==
    /\ png # <<>> /\ png.pc = "written"
    /\ png' = [png EXCEPT !.pc = "read", !.res = ExtractDataFromPNG(png.bytes)]
    /\ UNCHANGED <<np, padVars, serVars, tarVars, dd, restVars, lateVars>>

PngNext == PngWrite \/ PngTamper \/ PngRead

SpecPNG == PngInit /\ [][PngNext]_vars

\* C8: ExtractDataFromPNG applied to the bytes encodePNGWithData(d) wrote
\* returns exactly d, and after a single-bit change inside the rAWd payload it
\* returns the CRC error and no data.
C8_PngLosslessTamperEvident ==
    (png # <<>> /\ png.pc = "read") =>
        IF png.flipped = <<>>
        THEN png.res = [err |-> "nil", data |-> png.data]
        ELSE png.res = [err |-> "CRC mismatch in 'rAWd' chunk", data |-> <<>>]

\* a payload that itself holds the chunk type was read back, and a tampered
\* one was rejected
C8_Witness ==
    /\ png # <<>> /\ png.pc = "read"
    /\ \/ (png.flipped = <<>> /\ png.data = RawdType /\ png.res.data = RawdType)
       \/ (png.flipped # <<>> /\ png.res.err = "CRC mismatch in 'rAWd' chunk")

-----------------------------------------------------------------------------
(* SpecTar: EncodeDirectory in archive mode with one output directory: the   *)
(* TarChunkWriter registry, the archives, and repeated calls in one process  *)

MaxTarChunks == 2
MaxRuns == 2

TarCopies == {[N |-> 2, K |-> 2], [N |-> 3, K |-> 2]}
Formats == {"bin", "png"}

\* <label>.tar
ArchiveName(label) == label \o <<46, 116, 97, 114>>

ArchiveNames ==
    UNION {{ArchiveName(CollectionLabel(c.K, i, c.N)) : i \in 1..c.N} : c \in TarCopies}

\* %04d
Pad4(m) ==
    LET d == Digits(m)
    IN  IF Len(d) >= 4 THEN d ELSE [i \in 1..(4 - Len(d)) |-> 48] \o d

\* TarChunkWriter.Close: IMG<coll>_<chunk>.PNG or <coll>_<chunk>.bin
EntryName(format, collName, chunkNum) ==
    IF format = "png"
    THEN <<73, 77, 71>> \o collName \o <<95>> \o Pad4(chunkNum) \o <<46, 80, 78, 71>>
    ELSE collName \o <<95>> \o Pad4(chunkNum) \o <<46, 98, 105, 110>>

NoWriter == [open |-> FALSE]
NoRun == [pc |-> "idle", calls |-> 0, result |-> "none", fresh |-> TRUE, N |-> 0, K |-> 0,
          Format |-> "bin", nChunks |-> 0, chunk |-> 0, phase |-> "open", k |-> 0,
          piece |-> 0, sent |-> <<>>]

TarInit ==
    /\ NpIdle /\ PadIdle /\ SerIdle /\ PngIdle /\ DdIdle /\ RestIdle /\ LateIdle
    /\ fsys = [dir |-> [a \in ArchiveNames |-> 0], files |-> <<>>]
    /\ tarWriters = [a \in ArchiveNames |-> NoWriter]
    /\ run = NoRun

\* PrepareOutputDirectory: an empty directory is used as it is, a non-empty
\* one is emptied when ClearIfNotEmpty is set and refused when it is not
PrepareOutputDirectory(fs, clear) ==
    IF \A a \in ArchiveNames : fs.dir[a] = 0 THEN [err |-> "nil", fs |-> fs]
    ELSE IF clear THEN [err |-> "nil", fs |-> [fs EXCEPT !.dir = [a \in ArchiveNames |-> 0]]]
    ELSE [err |-> "output directory not empty", fs |-> fs]

\* EncodeDirectory up to the call of Pad.Encode
EncodeDirectoryCall ==
    /\ run # <<>> /\ run.pc = "idle" /\ run.calls < MaxRuns
    /\ \E c \in TarCopies, f \in Formats, clear \in BOOLEAN, n \in 1..MaxTarChunks :
          LET prep == PrepareOutputDirectory(fsys, clear)
          IN  /\ fsys' = prep.fs
              /\ run' = IF prep.err # "nil"
                        THEN [run EXCEPT !.calls = run.calls + 1, !.result = prep.err]
                        ELSE [NoRun EXCEPT !.pc = "encoding", !.calls = run.calls + 1,
                                !.fresh = (\A a \in ArchiveNames : ~tarWriters[a].open),
                                !.N = c.N, !.K = c.K, !.Format = f, !.nChunks = n,
                                !.chunk = 1, !.phase = "open", !.k = 1, !.piece = 1,
                                !.sent = [i \in 1..c.N |-> <<>>]]
    /\ UNCHANGED <<np, padVars, serVars, png, dd, tarWriters, restVars, lateVars>>

RunLabel(i) == CollectionLabel(run.K, i, run.N)

\* NewTarChunkWriter: a writer registered for the path is reused with its
\* chunk data reset; otherwise the file is opened, created if missing and not
\* truncated, and the new writer registered
NewTarChunkWriter(reg, fs, tarPath, collName, format) ==
    IF reg[tarPath].open
    THEN [reg |-> [reg EXCEPT ![tarPath].chunkData = <<>>], fs |-> fs]
    ELSE LET exists == fs.dir[tarPath] # 0
             id     == IF exists THEN fs.dir[tarPath] ELSE Len(fs.files) + 1
         IN  [reg |-> [reg EXCEPT ![tarPath] =
                          [open |-> TRUE, CollName |-> collName, ChunkNum |-> 0,
                           Format |-> format, chunkData |-> <<>>, tarFile |-> id]],
              fs  |-> IF exists
                      THEN [fs EXCEPT !.files[id] = [entries |-> <<>>, closed |-> FALSE]]
                      ELSE [dir |-> [fs.dir EXCEPT ![tarPath] = id],
                            files |-> Append(fs.files, [entries |-> <<>>, closed |-> FALSE])]]

\* the codec opens the writer of the next collection for the current chunk:
\* newChunkFunc calls NewTarChunkWriter and sets the chunk number
OpenChunkWriter ==
    /\ run # <<>> /\ run.pc = "encoding" /\ run.phase = "open"
    /\ LET label == RunLabel(run.k)
           path  == ArchiveName(label)
           r     == NewTarChunkWriter(tarWriters, fsys, path, label, run.Format)
       IN  /\ tarWriters' = [r.reg EXCEPT ![path].ChunkNum = run.chunk]
           /\ fsys' = r.fs
    /\ run' = IF run.k < run.N THEN [run EXCEPT !.k = run.k + 1]
              ELSE [run EXCEPT !.phase = "write", !.k = 1, !.piece = 1,
                               !.sent = [i \in 1..run.N |-> Append(run.sent[i], <<>>)]]
    /\ UNCHANGED <<np, padVars, serVars, png, dd, restVars, lateVars>>

\* the bytes of the codec's writes to one writer: the frame name, then a
\* payload byte that tells the calls apart
FramePiece(i, piece) ==
    IF piece = 1 THEN FrameName(RunLabel(i), run.chunk) ELSE <<run.calls>>

\* TarChunkWriter.Write
WriteChunkData ==
    /\ run # <<>> /\ run.pc = "encoding" /\ run.phase = "write"
    /\ LET path == ArchiveName(RunLabel(run.k))
           p    == FramePiece(run.k, run.piece)
       IN  /\ tarWriters' = [tarWriters EXCEPT ![path].chunkData = @ \o p]
           /\ run' = [run EXCEPT
                        !.sent[run.k][run.chunk] = @ \o p,
                        !.piece = IF run.piece = 1 THEN 2 ELSE 1,
                        !.k = IF run.piece = 1 THEN run.k
                              ELSE IF run.k < run.N THEN run.k + 1 ELSE run.N,
                        !.phase = IF run.piece = 2 /\ run.k = run.N THEN "close" ELSE "write"]
    /\ UNCHANGED <<np, padVars, serVars, png, dd, fsys, restVars, lateVars>>

\* TarChunkWriter.Close: the chunk data, wrapped as a PNG if that is the
\* writer's format, becomes the next entry of the writer's file
TarChunkWriterClose(w, fs) ==
    LET data == IF w.Format = "png" THEN encodePNGWithData(w.chunkData) ELSE w.chunkData
    IN  [fs EXCEPT !.files[w.tarFile].entries =
            Append(@, [Name |-> EntryName(w.Format, w.CollName, w.ChunkNum), Data |-> data])]

\* the codec closes the writers of the chunk in reverse order of opening
CloseChunkWriter ==
    /\ run # <<>> /\ run.pc = "encoding" /\ run.phase = "close"
    /\ LET path == ArchiveName(RunLabel(run.k))
       IN  /\ fsys' = TarChunkWriterClose(tarWriters[path], fsys)
           /\ tarWriters' = [tarWriters EXCEPT ![path].chunkData = <<>>]
    /\ run' = IF run.k > 1 THEN [run EXCEPT !.k = run.k - 1]
              ELSE IF run.chunk < run.nChunks
              THEN [run EXCEPT !.chunk = run.chunk + 1, !.phase = "open", !.k = 1]
              ELSE [run EXCEPT !.phase = "done"]
    /\ UNCHANGED <<np, padVars, serVars, png, dd, restVars, lateVars>>

\* FinalizeAllTarWriters: every registered writer's archive gets its trailer
\* and is closed, and the registry is replaced by an empty one
FinalizeAllTarWriters(reg, fs) ==
    [reg |-> [a \in ArchiveNames |-> NoWriter],
     fs  |-> [fs EXCEPT !.files =
                 [id \in DOMAIN fs.files |->
                     IF \E a \in ArchiveNames : reg[a].open /\ reg[a].tarFile = id
                     THEN [fs.files[id] EXCEPT !.closed = TRUE]
                     ELSE fs.files[id]]]]

\* Pad.Encode returned nil: the writers are finalised, EncodeDirectory returns nil
EncodeDirectoryReturn ==
    /\ run # <<>> /\ run.pc = "encoding" /\ run.phase = "done"
    /\ LET r == FinalizeAllTarWriters(tarWriters, fsys)
       IN  tarWriters' = r.reg /\ fsys' = r.fs
    /\ run' = [run EXCEPT !.pc = "idle", !.result = "nil"]
    /\ UNCHANGED <<np, padVars, serVars, png, dd, restVars, lateVars>>

\* Pad.Encode returned an error (its input, its random source or a writer
\* failed): EncodeDirectory returns "encoding failed" at once
EncodeDirectoryFail ==
    /\ run # <<>> /\ run.pc = "encoding" /\ run.phase # "done"
    /\ run' = [run EXCEPT !.pc = "idle", !.result = "encoding failed"]
    /\ UNCHANGED <<np, padVars, serVars, png, dd, fsys, tarWriters, restVars, lateVars>>

TarNext ==
    \/ EncodeDirectoryCall \/ OpenChunkWriter \/ WriteChunkData \/ CloseChunkWriter
    \/ EncodeDirectoryReturn \/ EncodeDirectoryFail

SpecTar == TarInit /\ [][TarNext]_vars

\* the payload an archive entry carries
EntryPayload(format, e) ==
    IF format = "png" THEN ExtractDataFromPNG(e.Data).data ELSE e.Data

\* the output directory holds exactly the N archives of the last call, each
\* closed and holding one entry per chunk with the bytes written for it
ArchivesComplete ==
    /\ {a \in ArchiveNames : fsys.dir[a] # 0} = {ArchiveName(RunLabel(i)) : i \in 1..run.N}
    /\ \A i \in 1..run.N :
          LET id == fsys.dir[ArchiveName(RunLabel(i))]
          IN  /\ id # 0
              /\ fsys.files[id].closed
              /\ Len(fsys.files[id].entries) = run.nChunks
              /\ \A m \in 1..run.nChunks :
                    LET e == fsys.files[id].entries[m]
                    IN  /\ e.Name = EntryName(run.Format, RunLabel(i), m)
                        /\ EntryPayload(run.Format, e) = run.sent[i][m]

EncodeSucceeded == run # <<>> /\ run.pc = "idle" /\ run.result = "nil"

\* C7: after a successful EncodeDirectory in archive mode with one output
\* directory the directory holds exactly N archives <collection>.tar, each with
\* one entry per chunk, in chunk order, named after collection and chunk and
\* carrying exactly the bytes the codec wrote for that chunk.
C7_ArchivesAfterEncode == EncodeSucceeded => ArchivesComplete

\* the same for a call that found the registry of writers empty
ArchivesAfterFreshCall == (EncodeSucceeded /\ run.fresh) => ArchivesComplete

EncodeReturned == run # <<>> /\ run.pc = "idle" /\ run.calls > 0

RegistryEmpty == \A a \in ArchiveNames : ~tarWriters[a].open

\* C12: whenever EncodeDirectory has returned in archive mode, with nil or with
\* any error, an error of Pad.Encode included, no archive writer is left
\* registered, so that the next encode to the same path gets a fresh writer.
C12_RegistryEmptyOnReturn == EncodeReturned => RegistryEmpty

\* the same for the calls that returned nil
RegistryEmptyOnSuccess == EncodeSucceeded => RegistryEmpty

-----------------------------------------------------------------------------
(* SpecDec: DecodeDirectory from the creation of the pipe on: Pad.Decode     *)
(* writing into the pipe, the deserialisation goroutine reading from it      *)

MaxDecChunks == 2
MaxReads == 2

ErrClosedPipe == "io: read/write on closed pipe"
DecodeErrs == {"ErrShortCollection", "ErrCollectionMismatch"}
DeserializeErrs == {"failed to create gzip reader", "tar header read error"}

\* io.Pipe: the error a Write gets once the read side is closed with err
\* (pr.Close is CloseWithError(nil), and nil becomes ErrClosedPipe)
PipeReaderClose(err) == IF err = "nil" THEN ErrClosedPipe ELSE err

\* io.Pipe: the first close of the write side wins
PipeWriterClose(werr, err) ==
    IF werr # "open" THEN werr ELSE IF err = "nil" THEN "EOF" ELSE err

DecInit ==
    /\ NpIdle /\ PadIdle /\ SerIdle /\ PngIdle /\ TarIdle /\ RestIdle /\ LateIdle
    /\ \E n \in 0..MaxDecChunks, gz \in BOOLEAN :
          dd = [gzip |-> gz, main |-> "decode", remaining |-> n, pending |-> 0,
                werr |-> "open", rerr |-> "open", go |-> "reading", consumed |-> 0,
                deserializeErr |-> "nil", done |-> FALSE, decodeErr |-> "nil",
                writeErr |-> "nil", failedWhileWriting |-> FALSE,
                ret |-> [kind |-> "none", cause |-> "nil"]]

\* Pad.Decode has the next chunk of plaintext and calls pw.Write: the write
\* fails at once when the read side is closed, and blocks otherwise
CodecWrite ==
    /\ dd # <<>> /\ dd.main = "decode" /\ dd.remaining > 0
    /\ \/ /\ dd.rerr # "open"
          /\ dd' = [dd EXCEPT !.main = "returned", !.writeErr = dd.rerr,
                              !.decodeErr = dd.rerr,
                              !.ret = [kind |-> "decoding failed", cause |-> dd.rerr]]
       \/ /\ dd.rerr = "open"
          /\ \E r \in 1..MaxReads :
                dd' = [dd EXCEPT !.main = "writing", !.pending = r,
                                 !.remaining = dd.remaining - 1]
    /\ UNCHANGED <<np, padVars, serVars, png, tarVars, restVars, lateVars>>

\* the blocked pw.Write returns: nil when the reader took all of it, the
\* read side's error when the read side was closed; Pad.Decode returns the
\* write error and DecodeDirectory returns "decoding failed"
CodecWriteReturn ==
    /\ dd # <<>> /\ dd.main = "writing"
    /\ \/ /\ dd.pending = 0
          /\ dd' = [dd EXCEPT !.main = "decode"]
       \/ /\ dd.pending > 0 /\ dd.rerr # "open"
          /\ dd' = [dd EXCEPT !.main = "returned", !.writeErr = dd.rerr,
                              !.decodeErr = dd.rerr,
                              !.ret = [kind |-> "decoding failed", cause |-> dd.rerr]]
    /\ UNCHANGED <<np, padVars, serVars, png, tarVars, restVars, lateVars>>

\* Pad.Decode returns an error of its own: DecodeDirectory returns
\* "decoding failed" and leaves the pipe as it is
DecodeFails(d, e) ==
    [d EXCEPT !.main = "returned", !.decodeErr = e,
              !.ret = [kind |-> "decoding failed", cause |-> e]]

CodecError ==
    /\ dd # <<>> /\ dd.main = "decode"
    /\ \E e \in DecodeErrs : dd' = DecodeFails(dd, e)
    /\ UNCHANGED <<np, padVars, serVars, png, tarVars, restVars, lateVars>>

\* Pad.Decode returns nil at the end of the collections: pw.Close, then the
\* wait for the goroutine
CodecDone ==
    /\ dd # <<>> /\ dd.main = "decode" /\ dd.remaining = 0
    /\ dd' = [dd EXCEPT !.main = "wait", !.werr = PipeWriterClose(dd.werr, "nil")]
    /\ UNCHANGED <<np, padVars, serVars, png, tarVars, restVars, lateVars>>

\* the goroutine's deferred calls: pr.Close(), then close(done)
GoroutineExit(d, err) ==
    [d EXCEPT !.go = "exited", !.deserializeErr = err, !.done = TRUE,
              !.rerr = IF d.rerr # "open" THEN d.rerr ELSE PipeReaderClose("nil")]

\* a read of the pipe by the decompressor or the deserialiser takes part of
\* the pending write
GoRead ==
    /\ dd # <<>> /\ dd.go = "reading" /\ dd.pending > 0
    /\ dd' = [dd EXCEPT !.pending = dd.pending - 1, !.consumed = 1]
    /\ UNCHANGED <<np, padVars, serVars, png, tarVars, restVars, lateVars>>

\* a read of the pipe finds the write side closed: the deserialiser ends,
\* with nil or with an error of its own at a clean end of the stream, with
\* the writer's error otherwise
GoReadClosed ==
    /\ dd # <<>> /\ dd.go = "reading" /\ dd.pending = 0 /\ dd.werr # "open"
    /\ \E e \in {"nil", "no files found in tar archive"} :
          dd' = GoroutineExit(dd, IF dd.werr = "EOF" THEN e ELSE dd.werr)
    /\ UNCHANGED <<np, padVars, serVars, png, tarVars, restVars, lateVars>>

\* the data read so far is rejected: by gzip.NewReader when the stream is
\* compressed, or by the tar reader
GoFail ==
    /\ dd # <<>> /\ dd.go = "reading" /\ dd.consumed > 0
    /\ \E e \in DeserializeErrs :
          /\ (e = "failed to create gzip reader" => dd.gzip)
          /\ dd' = [GoroutineExit(dd, e) EXCEPT
                      !.failedWhileWriting = (dd.main = "writing" /\ dd.pending > 0)
                                             \/ (dd.main \in {"decode", "writing"}
                                                 /\ dd.remaining > 0)]
    /\ UNCHANGED <<np, padVars, serVars, png, tarVars, restVars, lateVars>>

\* the select after pw.Close: done is closed, deserializeErr is returned
Join ==
    /\ dd # <<>> /\ dd.main = "wait" /\ dd.done
    /\ dd' = [dd EXCEPT !.main = "returned",
                        !.ret = IF dd.deserializeErr = "nil"
                                THEN [kind |-> "nil", cause |-> "nil"]
                                ELSE [kind |-> "deserialize", cause |-> dd.deserializeErr]]
    /\ UNCHANGED <<np, padVars, serVars, png, tarVars, restVars, lateVars>>

\* the select after pw.Close: the timer fires first
JoinTimeout ==
    /\ dd # <<>> /\ dd.main = "wait" /\ ~dd.done
    /\ dd' = [dd EXCEPT !.main = "returned",
                        !.werr = PipeWriterClose(dd.werr, "timeout waiting for deserialization"),
                        !.ret = [kind |-> "timeout", cause |-> "nil"]]
    /\ UNCHANGED <<np, padVars, serVars, png, tarVars, restVars, lateVars>>

DecNext ==
    \/ CodecWrite \/ CodecWriteReturn \/ CodecError \/ CodecDone
    \/ GoRead \/ GoReadClosed \/ GoFail \/ Join \/ JoinTimeout

SpecDec == DecInit /\ [][DecNext]_vars

\* the goroutine is blocked in a read of the pipe that nothing will end
GoroutineBlocked ==
    dd.go = "reading" /\ dd.pending = 0 /\ dd.werr = "open"

\* C9: whenever Pad.Decode returns an error, the pipe to the deserialiser is
\* closed with that error, and the goroutine is never left blocked reading
\* the pipe after DecodeDirectory has returned.
C9_DecodeErrorClosesPipe ==
    (dd # <<>> /\ dd.main = "returned" /\ dd.decodeErr # "nil") =>
        (dd.werr = dd.decodeErr /\ ~GoroutineBlocked)

\* C10: when decompression or deserialisation fails while the codec is still
\* writing, the pipe is closed with the deserialiser's error: the codec's next
\* write fails with that error and DecodeDirectory returns it, not a generic
\* closed-pipe error.
C10_DeserializeErrorReachesCodec ==
    (dd # <<>> /\ dd.failedWhileWriting) =>
        /\ dd.rerr = dd.deserializeErr
        /\ (dd.writeErr # "nil" => dd.writeErr = dd.deserializeErr)
        /\ (dd.main = "returned" /\ dd.writeErr # "nil" => dd.ret.cause = dd.deserializeErr)

\* SpecDecLive: the same pipeline where a side may fail to finish

\* the deserialiser stops in a call that never returns (a write to the output
\* directory that blocks): it neither reads the pipe again nor exits
GoStall ==
    /\ dd # <<>> /\ dd.go = "reading"
    /\ dd' = [dd EXCEPT !.go = "stalled"]
    /\ UNCHANGED <<np, padVars, serVars, png, tarVars, restVars, lateVars>>

\* Pad.Decode stops in a read of a collection that never returns
CodecStall ==
    /\ dd # <<>> /\ dd.main = "decode"
    /\ dd' = [dd EXCEPT !.main = "stalled"]
    /\ UNCHANGED <<np, padVars, serVars, png, tarVars, restVars, lateVars>>

DecLiveNext == DecNext \/ GoStall \/ CodecStall

\* every step of the codec, of the goroutine and of the select is taken when
\* it can be: goroutines that can run do run, and the timer fires
SpecDecLive == DecInit /\ [][DecLiveNext]_vars /\ WF_vars(DecNext)

DecodeDirectoryReturned == dd # <<>> /\ dd.main = "returned"

\* C13: if the codec or the deserialiser fails to finish, DecodeDirectory
\* still returns, after the bounded wait and with the timeout error: no
\* execution of DecodeDirectory waits forever.
C13_DecodeDirectoryAlwaysReturns == <>DecodeDirectoryReturned

\* the same where only the deserialiser may stall
ReturnsUnlessCodecStalls ==
    <>(dd # <<>> /\ dd.main = "stalled") \/ <>DecodeDirectoryReturned

\* once Pad.Decode has returned nil the wait is bounded
JoinIsBounded == (dd # <<>> /\ dd.main = "wait") ~> DecodeDirectoryReturned

\* a return from the wait while the deserialiser is stalled is the timeout
StalledJoinTimesOut ==
    (dd # <<>> /\ dd.main = "returned" /\ dd.go = "stalled" /\ dd.decodeErr = "nil")
        => dd.ret.kind = "timeout"

-----------------------------------------------------------------------------
(* SpecEncIn: the input of Pad.Encode in EncodeDirectory: the serialiser     *)
(* goroutine, the gzip goroutine when compression is on, the codec's reads   *)

MaxEntries == 4

\* an empty pipe that nobody has closed
OpenPipe == [pending |-> 0, werr |-> "open"]

ErrSerialization == "error during directory serialization"

EncInInit ==
    /\ OldIdle /\ IcnIdle /\ DcsIdle /\ VerIdle /\ CliIdle /\ RngIdle /\ LateIdle
    /\ \E n \in 0..MaxEntries, gz \in BOOLEAN :
          ein = [gzip |-> gz, left |-> n, serializer |-> "walking", tar |-> OpenPipe,
                 compressor |-> IF gz THEN "copying" ELSE "none", gz |-> OpenPipe,
                 copyErr |-> "nil", readFailed |-> FALSE, got |-> 0,
                 streamEnd |-> "none", ret |-> "none"]

\* the Walk callback writes the next entry into the pipe
SerializerWrite ==
    /\ ein # <<>> /\ ein.serializer = "walking" /\ ein.left > 0 /\ ein.tar.pending = 0
    /\ ein' = [ein EXCEPT !.left = ein.left - 1, !.tar.pending = 1]
    /\ UNCHANGED <<oldVars, lateVars, icn, dcs, ver, cli, rng>>

\* the Walk callback fails on the next entry (walkErr, os.Open, io.Copy):
\* pw.CloseWithError; the deferred tw.Close and pw.Close change nothing more
SerializerFail ==
    /\ ein # <<>> /\ ein.serializer = "walking" /\ ein.left > 0 /\ ein.tar.pending = 0
    /\ ein' = [ein EXCEPT !.serializer = "done", !.readFailed = TRUE,
                          !.tar.werr = PipeWriterClose(ein.tar.werr, ErrSerialization)]
    /\ UNCHANGED <<oldVars, lateVars, icn, dcs, ver, cli, rng>>

\* the walk ends: the deferred tw.Close writes the trailer, pw.Close ends
\* the stream
SerializerEnd ==
    /\ ein # <<>> /\ ein.serializer = "walking" /\ ein.left = 0 /\ ein.tar.pending = 0
    /\ ein' = [ein EXCEPT !.serializer = "done",
                          !.tar.werr = PipeWriterClose(ein.tar.werr, "nil")]
    /\ UNCHANGED <<oldVars, lateVars, icn, dcs, ver, cli, rng>>

\* CompressStreamToStream: io.Copy moves what the serialiser wrote into the
\* gzip writer and on into the second pipe
CompressorCopy ==
    /\ ein # <<>> /\ ein.compressor = "copying"
    /\ ein.tar.pending > 0 /\ ein.gz.pending = 0
    /\ ein' = [ein EXCEPT !.tar.pending = 0, !.gz.pending = 1]
    /\ UNCHANGED <<oldVars, lateVars, icn, dcs, ver, cli, rng>>

\* CompressStreamToStream once io.Copy has returned: its error is logged,
\* gzw.Close succeeds and pw.Close ends the compressed stream
CompressorEnd(e) ==
    [e EXCEPT !.compressor = "done",
              !.copyErr = IF e.tar.werr = "EOF" THEN "nil" ELSE e.tar.werr,
              !.gz.werr = PipeWriterClose(e.gz.werr, "nil")]

CompressorFinish ==
    /\ ein # <<>> /\ ein.compressor = "copying"
    /\ ein.tar.pending = 0 /\ ein.tar.werr # "open" /\ ein.gz.pending = 0
    /\ ein' = CompressorEnd(ein)
    /\ UNCHANGED <<oldVars, lateVars, icn, dcs, ver, cli, rng>>

\* the stream EncodeDirectory hands to Pad.Encode
InputStream(e) == IF e.gzip THEN e.gz ELSE e.tar

\* Pad.Encode reads from its input stream
EncodeReadInput ==
    /\ ein # <<>> /\ ein.ret = "none" /\ InputStream(ein).pending > 0
    /\ ein' = IF ein.gzip THEN [ein EXCEPT !.gz.pending = 0, !.got = ein.got + 1]
              ELSE [ein EXCEPT !.tar.pending = 0, !.got = ein.got + 1]
    /\ UNCHANGED <<oldVars, lateVars, icn, dcs, ver, cli, rng>>

\* Pad.Encode finds its input stream ended: at a clean end it returns nil and
\* EncodeDirectory goes on to return nil, at an error it returns the error and
\* EncodeDirectory returns "encoding failed"
EncodeInputEnds ==
    /\ ein # <<>> /\ ein.ret = "none"
    /\ InputStream(ein).pending = 0 /\ InputStream(ein).werr # "open"
    /\ ein' = [ein EXCEPT !.streamEnd = InputStream(ein).werr,
                          !.ret = IF InputStream(ein).werr = "EOF" THEN "nil"
                                  ELSE "encoding failed"]
    /\ UNCHANGED <<oldVars, lateVars, icn, dcs, ver, cli, rng>>

EncInNext ==
    \/ SerializerWrite \/ SerializerFail \/ SerializerEnd
    \/ CompressorCopy \/ CompressorFinish \/ EncodeReadInput \/ EncodeInputEnds

SpecEncIn == EncInInit /\ [][EncInNext]_vars

\* C11: if reading the input directory fails part-way through serialisation,
\* with gzip compression on or off, the codec's input stream ends with that
\* error and not cleanly, and EncodeDirectory returns an error, not success.
C11_SerializationErrorSurfaces ==
    (ein # <<>> /\ ein.readFailed /\ ein.ret # "none") =>
        (ein.streamEnd = ErrSerialization /\ ein.ret = "encoding failed")

\* the same with compression off
SerializationErrorSurfacesUncompressed ==
    (ein # <<>> /\ ~ein.gzip /\ ein.readFailed /\ ein.ret # "none") =>
        (ein.streamEnd = ErrSerialization /\ ein.ret = "encoding failed")

-----------------------------------------------------------------------------
(* SpecIcn: IsCollectionName applied to byte strings                         *)

MaxNameLen == 4

\* bytes around the borders of '0'..'9', 'A'..'Z' and 'a'..'z'
NameBytes == {47, 49, 53, 58, 65, 88, 97, 123}

\* the index the first loop leaves in firstDigitIndex: that of the last byte
\* of the leading run of digits, counted from 0, and -1 when there is none
FirstDigitIndex(name) ==
    LET lead == {i \in 1..Len(name) : \A j \in 1..i : IsDigit(name[j])}
    IN  Cardinality(lead) - 1

IsCollectionName(name) ==
    LET firstDigitIndex == FirstDigitIndex(name)
    IN  IF Len(name) < 3 THEN FALSE
        ELSE IF firstDigitIndex < 0 THEN FALSE
        ELSE IF firstDigitIndex + 1 >= Len(name) THEN FALSE
        ELSE IF ~IsLetter(name[firstDigitIndex + 2]) THEN FALSE
        ELSE \A i \in (firstDigitIndex + 2)..(Len(name) - 1) : IsDigit(name[i + 1])

IcnInit ==
    /\ OldIdle /\ EinIdle /\ DcsIdle /\ VerIdle /\ CliIdle /\ RngIdle /\ LateIdle
    /\ \E name \in SeqsUpTo(MaxNameLen, NameBytes) :
          icn = [name |-> name, called |-> FALSE, result |-> FALSE]

IsCollectionNameCall ==
    /\ icn # <<>> /\ ~icn.called
    /\ icn' = [icn EXCEPT !.called = TRUE, !.result = IsCollectionName(icn.name)]
    /\ UNCHANGED <<oldVars, lateVars, ein, dcs, ver, cli, rng>>

SpecIcn == IcnInit /\ [][IsCollectionNameCall]_vars

\* ^(\d+)([A-Za-z])(\d+)$ : digits, one letter at position m, digits
MatchesCollectionPattern(s) ==
    \E m \in 2..(Len(s) - 1) :
        /\ IsLetter(s[m])
        /\ \A i \in 1..(m - 1) : IsDigit(s[i])
        /\ \A i \in (m + 1)..Len(s) : IsDigit(s[i])

\* C14: IsCollectionName(s) is true exactly for the strings that match
\* ^(\d+)([A-Za-z])(\d+)$; it accepts 3A5, 3a5 and 12Z26 and rejects A5, A35,
\* 353, 3AX and every string with no digit after the letter.
C14_IsCollectionNameIsPattern ==
    (icn # <<>> /\ icn.called) => (icn.result = MatchesCollectionPattern(icn.name))

\* the names the tests list are classified as the tests expect
CollectionNameExamples ==
    /\ IsCollectionName(<<51, 65, 53>>)
    /\ IsCollectionName(<<51, 97, 53>>)
    /\ IsCollectionName(<<49, 50, 90, 50, 54>>)
    /\ ~IsCollectionName(<<65, 53>>)
    /\ ~IsCollectionName(<<65, 51, 53>>)
    /\ ~IsCollectionName(<<51, 53, 51>>)
    /\ ~IsCollectionName(<<51, 65, 88>>)

\* every name that matches the pattern is accepted
PatternNamesAccepted ==
    (icn # <<>> /\ icn.called /\ MatchesCollectionPattern(icn.name)) => icn.result
-----------------------------------------------------------------------------
(* SpecDcs: CompressStreamToStream and DecompressStreamToStream on byte      *)
(* streams. The deflate data of a gzip member is kept as one stored block.   *)

MaxStreamLen == 3

StreamBytes == {7, 31, 139}
StreamEnds == {"EOF", "read error"}

\* gzip.Writer's header: magic 1f 8b, method 8, no flags, no time, OS unknown
GzipHeader == <<31, 139, 8, 0, 0, 0, 0, 0, 0, 255>>

\* a 32-bit value as four little-endian bytes
Reversed4(b) == <<b[4], b[3], b[2], b[1]>>

\* gzip.Writer over the bytes copied into it, closed: header, the data as a
\* final stored block (length and its complement), CRC-32 and size
GzipBytes(x) ==
    GzipHeader
    \o <<1, Len(x) % 256, Len(x) \div 256, 255 - (Len(x) % 256), 255 - (Len(x) \div 256)>>
    \o x
    \o Reversed4(Crc32Bytes(x)) \o Reversed4(PutUint32(Len(x)))

\* CompressStreamToStream: the bytes io.Copy got from r are compressed; an
\* error of r is logged only and the compressed stream ends cleanly
CompressStreamToStream(r) == [bytes |-> GzipBytes(r.bytes), end |-> "EOF"]

\* gzip.NewReader reads and checks the ten header bytes
GzipNewReader(r) ==
    IF Len(r.bytes) < 10
    THEN IF r.end = "EOF" THEN "unexpected EOF" ELSE r.end
    ELSE IF SubSeq(r.bytes, 1, 4) # SubSeq(GzipHeader, 1, 4) THEN "gzip: invalid header"
    ELSE "nil"

\* reading a gzip.Reader to its end: the stored block, then CRC-32 and size
GzipReadAll(r) ==
    LET bs   == r.bytes
        n    == IF Len(bs) >= 15 THEN bs[12] + 256 * bs[13] ELSE 0
        data == SubSeq(bs, 16, 15 + n)
        cut  == IF r.end = "EOF" THEN "unexpected EOF" ELSE r.end
    IN  IF Len(bs) < 15 THEN [data |-> <<>>, err |-> cut]
        ELSE IF bs[11] # 1 \/ bs[14] # 255 - bs[12] \/ bs[15] # 255 - bs[13]
        THEN [data |-> <<>>, err |-> "flate: corrupt input"]
        ELSE IF Len(bs) < 15 + n THEN [data |-> SubSeq(bs, 16, Len(bs)), err |-> cut]
        ELSE IF Len(bs) < 23 + n THEN [data |-> data, err |-> cut]
        ELSE IF SubSeq(bs, 16 + n, 19 + n) # Reversed4(Crc32Bytes(data))
                \/ SubSeq(bs, 20 + n, 23 + n) # Reversed4(PutUint32(n))
        THEN [data |-> data, err |-> "gzip: invalid checksum"]
        ELSE IF Len(bs) > 23 + n THEN [data |-> data, err |-> "gzip: invalid header"]
        ELSE [data |-> data, err |-> IF r.end = "EOF" THEN "nil" ELSE r.end]

\* what a reader that passes r on yields when read to its end
PassThrough(bs, r) == [data |-> bs, err |-> IF r.end = "EOF" THEN "nil" ELSE r.end]

\* DecompressStreamToStream with the two peeked bytes left out of the reader
\* it returns for a stream that is not compressed
DecompressStreamToStreamDropPeek(r) ==
    LET n == IF Len(r.bytes) < 2 THEN Len(r.bytes) ELSE 2
    IN  IF n < 2
        THEN IF r.end # "EOF" THEN [err |-> "failed to read from input stream", out |-> <<>>]
             ELSE [err |-> "nil", out |-> [data |-> r.bytes, err |-> "nil"]]
        ELSE IF r.bytes[1] # 31 \/ r.bytes[2] # 139
        THEN [err |-> "nil", out |-> PassThrough(SubSeq(r.bytes, 3, Len(r.bytes)), r)]
        ELSE IF GzipNewReader(r) # "nil"
        THEN [err |-> "failed to create gzip reader", out |-> <<>>]
        ELSE [err |-> "nil", out |-> GzipReadAll(r)]

\* DecompressStreamToStream, and the bytes and the error the reader it
\* returns yields when read to its end
DecompressStreamToStream(r) ==
    LET n == IF Len(r.bytes) < 2 THEN Len(r.bytes) ELSE 2
    IN  IF n < 2
        THEN IF r.end # "EOF" THEN [err |-> "failed to read from input stream", out |-> <<>>]
             ELSE [err |-> "nil", out |-> [data |-> SubSeq(r.bytes, 1, n), err |-> "nil"]]
        ELSE IF r.bytes[1] # 31 \/ r.bytes[2] # 139
        THEN [err |-> "nil", out |-> PassThrough(r.bytes, r)]
        ELSE IF GzipNewReader(r) # "nil"
        THEN [err |-> "failed to create gzip reader", out |-> <<>>]
        ELSE [err |-> "nil", out |-> GzipReadAll(r)]

DcsInit ==
    /\ OldIdle /\ EinIdle /\ IcnIdle /\ VerIdle /\ CliIdle /\ RngIdle /\ LateIdle
    /\ \E x \in SeqsUpTo(MaxStreamLen, StreamBytes), e \in StreamEnds :
          dcs = [x |-> x, stage |-> "input", stream |-> [bytes |-> x, end |-> e],
                 called |-> FALSE, err |-> "nil", out |-> <<>>]

CompressCall ==
    /\ dcs # <<>> /\ dcs.stage = "input" /\ ~dcs.called
    /\ dcs' = [dcs EXCEPT !.stage = "compressed",
                          !.stream = CompressStreamToStream(dcs.stream)]
    /\ UNCHANGED <<oldVars, lateVars, ein, icn, ver, cli, rng>>

\* the compressed stream loses its last byte on the way
Truncate ==
    /\ dcs # <<>> /\ dcs.stage = "compressed" /\ ~dcs.called
    /\ dcs' = [dcs EXCEPT !.stage = "truncated",
                          !.stream.bytes = SubSeq(@, 1, Len(@) - 1)]
    /\ UNCHANGED <<oldVars, lateVars, ein, icn, ver, cli, rng>>

DecompressCall ==
    /\ dcs # <<>> /\ ~dcs.called
    /\ LET r == DecompressStreamToStream(dcs.stream)
       IN  dcs' = [dcs EXCEPT !.called = TRUE, !.err = r.err, !.out = r.out]
    /\ UNCHANGED <<oldVars, lateVars, ein, icn, ver, cli, rng>>

DcsNext == CompressCall \/ Truncate \/ DecompressCall

SpecDcs == DcsInit /\ [][DcsNext]_vars

BeginsGzip(bs) == Len(bs) >= 2 /\ bs[1] = 31 /\ bs[2] = 139

\* C15: the reader DecompressStreamToStream returns yields the input bytes
\* unchanged when the input does not begin with 1f 8b, the empty and the
\* one-byte input included, and the uncompressed content when it does; for
\* the output of CompressStreamToStream on x it yields exactly x.
C15_DecompressPassThroughOrGunzip ==
    (dcs # <<>> /\ dcs.called) =>
        /\ (~BeginsGzip(dcs.stream.bytes) /\ dcs.stream.end = "EOF") =>
               (dcs.err = "nil" /\ dcs.out = [data |-> dcs.stream.bytes, err |-> "nil"])
        /\ dcs.stage = "compressed" =>
               (BeginsGzip(dcs.stream.bytes) /\ dcs.err = "nil"
                /\ dcs.out = [data |-> dcs.x, err |-> "nil"])

\* a stream that itself begins 1f 8b has come back through both functions
C15_Witness ==
    /\ dcs # <<>> /\ dcs.called /\ dcs.err = "nil"
    /\ dcs.stage = "compressed" /\ BeginsGzip(dcs.x) /\ Len(dcs.x) = 3
    /\ dcs.out = [data |-> dcs.x, err |-> "nil"]

\* a truncated compressed stream never reads as a complete one
TruncatedStreamFails ==
    (dcs # <<>> /\ dcs.called /\ dcs.stage = "truncated") =>
        (dcs.err # "nil" \/ dcs.out.err # "nil")
-----------------------------------------------------------------------------
(* SpecVer: the end of EncodeDirectory after a successful encode: the        *)
(* verification pass over the collections written                            *)

VerCollections == MinCopies
MaxVerChunks == 2
MaxHeaderErrors == 2

VerFormats == {"bin", "png"}

\* the file written for chunk j of collection i
VerPayload(i, j) == <<16 * i + j>>
VerWrapper(format, i, j) ==
    [bytes |-> IF format = "png" THEN encodePNGWithData(VerPayload(i, j))
               ELSE VerPayload(i, j),
     fault |-> "none"]

\* the state in which Pad.Encode has returned nil and the archives, if any,
\* are finalised
VerInit ==
    /\ OldIdle /\ EinIdle /\ IcnIdle /\ DcsIdle /\ CliIdle /\ RngIdle /\ LateIdle
    /\ \E f \in VerFormats, so \in BOOLEAN, ar \in BOOLEAN, n \in 1..MaxVerChunks :
          ver = [Format |-> f, SizeOnly |-> so, ArchiveCollections |-> ar,
                 out |-> IF so THEN [i \in 1..VerCollections |-> <<>>]
                         ELSE [i \in 1..VerCollections |->
                                  [j \in 1..n |-> VerWrapper(f, i, j)]],
                 unreadable |-> {}, atStart |-> <<>>, pc |-> "encoded",
                 i |-> 0, j |-> 0, totalFiles |-> 0, totalVerified |-> 0,
                 totalErrors |-> 0, verr |-> "nil", ret |-> "none"]

\* a stored file changes between its writing and the pass: one bit of the
\* payload, the tar header of an archive entry, or the file cannot be opened
DamageWrapper ==
    /\ ver # <<>> /\ ver.pc = "encoded" /\ ver.Format = "png"
    /\ \E i \in 1..VerCollections :
          \E j \in 1..Len(ver.out[i]) :
             /\ ver.out[i][j] = VerWrapper(ver.Format, i, j)
             /\ \/ LET at == BytesIndex(ver.out[i][j].bytes, RawdType) + 5
                   IN  ver' = [ver EXCEPT !.out[i][j].bytes[at] = XorByte(@, 1)]
                \/ /\ ver.ArchiveCollections
                   /\ ver' = [ver EXCEPT !.out[i][j].fault = "header"]
                \/ /\ ~ver.ArchiveCollections
                   /\ ver' = [ver EXCEPT !.out[i][j].fault = "open"]
    /\ UNCHANGED <<oldVars, lateVars, ein, icn, dcs, cli, rng>>

\* a collection's archive or directory cannot be opened
MakeUnreadable ==
    /\ ver # <<>> /\ ver.pc = "encoded" /\ ver.Format = "png" /\ ~ver.SizeOnly
    /\ \E i \in 1..VerCollections :
          /\ i \notin ver.unreadable
          /\ ver' = [ver EXCEPT !.unreadable = @ \cup {i}]
    /\ UNCHANGED <<oldVars, lateVars, ein, icn, dcs, cli, rng>>

\* what EncodeDirectory returns once VerifyCollectionIntegrity has returned
\* err: the error is logged and nil returned
AfterVerificationPassingError(err) == err

AfterVerification(err) == "nil"

\* EncodeDirectory reaches the verification pass: it is run for a PNG encode
\* that is not a dry run, and skipped otherwise
StartVerification ==
    /\ ver # <<>> /\ ver.pc = "encoded"
    /\ ver' = IF ~ver.SizeOnly /\ ver.Format = "png"
              THEN [ver EXCEPT !.pc = "verifying", !.atStart = ver.out, !.i = 1, !.j = 0]
              ELSE [ver EXCEPT !.pc = "returned", !.atStart = ver.out, !.ret = "nil"]
    /\ UNCHANGED <<oldVars, lateVars, ein, icn, dcs, cli, rng>>

\* VerifyCollectionIntegrity opens the next collection: one that cannot be
\* opened is logged and passed over
VerifyOpenCollection ==
    /\ ver # <<>> /\ ver.pc = "verifying" /\ ver.i <= VerCollections /\ ver.j = 0
    /\ ver' = IF ver.i \in ver.unreadable
              THEN [ver EXCEPT !.i = ver.i + 1]
              ELSE [ver EXCEPT !.j = 1,
                               !.totalFiles = IF ver.ArchiveCollections THEN @
                                              ELSE @ + Len(ver.out[ver.i])]
    /\ UNCHANGED <<oldVars, lateVars, ein, icn, dcs, cli, rng>>

\* the next file of the collection: a tar header that cannot be read is
\* counted and the loop goes on with the same reader; a file that cannot be
\* opened or fails ExtractDataFromPNG is counted; any other is verified
VerifyFile ==
    /\ ver # <<>> /\ ver.pc = "verifying" /\ ver.i <= VerCollections
    /\ ver.j >= 1 /\ ver.j <= Len(ver.out[ver.i])
    /\ LET w == ver.out[ver.i][ver.j]
           n == IF ver.ArchiveCollections THEN ver.totalFiles + 1 ELSE ver.totalFiles
       IN  IF w.fault = "header"
           THEN /\ ver.totalErrors < MaxHeaderErrors
                /\ ver' = [ver EXCEPT !.totalErrors = @ + 1]
           ELSE IF w.fault = "open" \/ ExtractDataFromPNG(w.bytes).err # "nil"
           THEN ver' = [ver EXCEPT !.j = @ + 1, !.totalFiles = n, !.totalErrors = @ + 1]
           ELSE ver' = [ver EXCEPT !.j = @ + 1, !.totalFiles = n, !.totalVerified = @ + 1]
    /\ UNCHANGED <<oldVars, lateVars, ein, icn, dcs, cli, rng>>

\* the end of the collection's files
VerifyCloseCollection ==
    /\ ver # <<>> /\ ver.pc = "verifying" /\ ver.i <= VerCollections
    /\ ver.j > Len(ver.out[ver.i])
    /\ ver' = [ver EXCEPT !.i = @ + 1, !.j = 0]
    /\ UNCHANGED <<oldVars, lateVars, ein, icn, dcs, cli, rng>>

\* VerifyCollectionIntegrity returns an error when it counted any, and
\* EncodeDirectory returns
VerifyReturn ==
    /\ ver # <<>> /\ ver.pc = "verifying" /\ ver.i > VerCollections
    /\ LET err == IF ver.totalErrors > 0 THEN "PNG verification found integrity errors"
                  ELSE "nil"
       IN  ver' = [ver EXCEPT !.pc = "returned", !.verr = err,
                              !.ret = AfterVerification(err)]
    /\ UNCHANGED <<oldVars, lateVars, ein, icn, dcs, cli, rng>>

VerNext ==
    \/ DamageWrapper \/ MakeUnreadable \/ StartVerification \/ VerifyOpenCollection
    \/ VerifyFile \/ VerifyCloseCollection \/ VerifyReturn

SpecVer == VerInit /\ [][VerNext]_vars

\* the files of the collections that could be opened, and those of them
\* that fail verification
VerReadFiles == {<<i, j>> \in (1..VerCollections) \X (1..MaxVerChunks + 1) :
                    i \notin ver.unreadable /\ j <= Len(ver.out[i])}
VerFailing == {f \in VerReadFiles :
                  LET w == ver.out[f[1]][f[2]]
                  IN  w.fault # "none" \/ ExtractDataFromPNG(w.bytes).err # "nil"}

-----------------------------------------------------------------------------
(* SpecCli: the encode command's handling of its output directories and of   *)
(* the -copies and -required flags, in both command-line front ends          *)

MaxDirs == 3
DefaultCopies == 2
DefaultRequired == 2

\* a flag of the command line: given with a value, or left at its default
CopiesFlags ==
    {[set |-> FALSE, v |-> DefaultCopies]} \cup {[set |-> TRUE, v |-> n] : n \in 0..(MaxCopies + 1)}
RequiredFlags ==
    {[set |-> FALSE, v |-> DefaultRequired]} \cup {[set |-> TRUE, v |-> n] : n \in 0..(MaxCopies + 1)}

Fatal == [exit |-> 1, encoded |-> FALSE, N |-> 0, K |-> 0]
Encoded(n, k) == [exit |-> 0, encoded |-> TRUE, N |-> n, K |-> k]

\* handleEncode from the parsed flags on, for dirs output directories
handleEncode(dirs, copies, required) ==
    LET nVal == IF dirs > 1 THEN dirs ELSE copies.v
        reqVal == IF required.v = DefaultRequired /\ dirs > 1 THEN nVal
                  ELSE IF required.v < 2 THEN 2 ELSE required.v
    IN  IF dirs > 1 /\ copies.v # DefaultCopies /\ copies.v # dirs THEN Fatal
        ELSE IF nVal < MinCopies \/ nVal > MaxCopies THEN Fatal
        ELSE IF reqVal > nVal THEN Fatal
        ELSE Encoded(nVal, reqVal)

\* the encode case of main from the parsed flags on
mainEncode(dirs, copies, required) ==
    LET nVal == IF dirs > 1 THEN dirs ELSE copies.v
        reqVal == IF required.v < 2 THEN 2 ELSE required.v
    IN  IF dirs > 1 /\ copies.v # DefaultCopies /\ copies.v # dirs THEN Fatal
        ELSE IF nVal < MinCopies \/ nVal > MaxCopies THEN Fatal
        ELSE IF reqVal > nVal THEN Fatal
        ELSE Encoded(nVal, reqVal)

CliInit ==
    /\ OldIdle /\ EinIdle /\ IcnIdle /\ DcsIdle /\ VerIdle /\ RngIdle /\ LateIdle
    /\ \E d \in 1..MaxDirs, c \in CopiesFlags, r \in RequiredFlags :
          cli = [dirs |-> d, copies |-> c, required |-> r, pc |-> "start",
                 frontEnd |-> "none", res |-> <<>>]

HandleEncodeRun ==
    /\ cli # <<>> /\ cli.pc = "start"
    /\ cli' = [cli EXCEPT !.pc = "exited", !.frontEnd = "handleEncode",
                          !.res = handleEncode(cli.dirs, cli.copies, cli.required)]
    /\ UNCHANGED <<oldVars, lateVars, ein, icn, dcs, ver, rng>>

MainEncodeRun ==
    /\ cli # <<>> /\ cli.pc = "start"
    /\ cli' = [cli EXCEPT !.pc = "exited", !.frontEnd = "main",
                          !.res = mainEncode(cli.dirs, cli.copies, cli.required)]
    /\ UNCHANGED <<oldVars, lateVars, ein, icn, dcs, ver, rng>>

CliNext == HandleEncodeRun \/ MainEncodeRun

SpecCli == CliInit /\ [][CliNext]_vars

\* the N the command line asks for: the number of output directories when
\* there are several, the -copies value otherwise
RequestedN == IF cli.dirs > 1 THEN cli.dirs ELSE cli.copies.v

CliConforms ==
    IF RequestedN < MinCopies \/ RequestedN > MaxCopies \/ cli.required.v > RequestedN
    THEN cli.res.exit # 0 /\ ~cli.res.encoded
    ELSE cli.required.v >= 2 => cli.res = Encoded(RequestedN, cli.required.v)

\* C18: the encode command calls the encoder with N = the -copies value when
\* one output directory is given and N = the number of output directories,
\* whatever -copies says, when several are given, and with K = the -required
\* value when 2 <= K <= N; for N outside 2..26 or K > N it exits non-zero
\* without encoding.
C18_EncodeArguments == (cli # <<>> /\ cli.pc = "exited") => CliConforms

\* the same with one output directory
EncodeArgumentsOneDirectory ==
    (cli # <<>> /\ cli.pc = "exited" /\ cli.dirs = 1) => CliConforms

\* the same in main with several output directories and -copies not given
EncodeArgumentsMainNoCopies ==
    (cli # <<>> /\ cli.pc = "exited" /\ cli.frontEnd = "main" /\ ~cli.copies.set)
        => CliConforms
-----------------------------------------------------------------------------
(* SpecRng: two TestRNG instances created with the same start value and read *)
(* in calls of any sizes                                                     *)

MaxRngBytes == 5
MaxRngRead == 3

CounterStarts == {0, 128, 254, 255}

\* NewTestRNG(initialValue)
NewTestRNG(initialValue) == [counter |-> initialValue, out |-> <<>>, err |-> "nil"]

RngInit ==
    /\ OldIdle /\ EinIdle /\ IcnIdle /\ DcsIdle /\ VerIdle /\ CliIdle /\ LateIdle
    /\ \E s \in CounterStarts :
          rng = [start |-> s, inst |-> <<NewTestRNG(s), NewTestRNG(s)>>]

\* one call of Read on instance k with a buffer of n bytes
RngRead ==
    /\ rng # <<>>
    /\ \E k \in 1..2, n \in 0..MaxRngRead :
          /\ Len(rng.inst[k].out) + n <= MaxRngBytes
          /\ LET r == TestRNGRead(rng.inst[k].counter, n)
             IN  rng' = [rng EXCEPT !.inst[k] = [counter |-> r.counter,
                                                 out |-> rng.inst[k].out \o r.bytes,
                                                 err |-> "nil"]]
    /\ UNCHANGED <<oldVars, lateVars, ein, icn, dcs, ver, cli>>

SpecRng == RngInit /\ [][RngRead]_vars

\* C19: the i-th byte a TestRNG created with start value s ever delivers,
\* counted from 0 over all its Read calls, is (s + i) mod 256; two instances
\* with the same start value deliver the same sequence; Read never fails.
C19_TestRNGSequence ==
    rng # <<>> =>
        /\ \A k \in 1..2 :
              /\ rng.inst[k].err = "nil"
              /\ \A i \in 0..(Len(rng.inst[k].out) - 1) :
                    rng.inst[k].out[i + 1] = (rng.start + i) % 256
        /\ \A i \in 1..Min(Len(rng.inst[1].out), Len(rng.inst[2].out)) :
              rng.inst[1].out[i] = rng.inst[2].out[i]

\* both instances have counted past 255
C19_Witness ==
    /\ rng # <<>> /\ rng.start = 254
    /\ Len(rng.inst[1].out) = MaxRngBytes /\ Len(rng.inst[2].out) = MaxRngBytes
    /\ rng.inst[1].out[4] = 1 /\ rng.inst[2].counter = (254 + MaxRngBytes) % 256
-----------------------------------------------------------------------------
(* SpecTd: Pad.Decode from collections of a finished encode of which one has *)
(* lost its last chunks or has had one frame relabelled                      *)

\* the schemes <<N, K>> the stored collections come from
TdSchemes == {<<2, 2>>, <<3, 2>>, <<3, 3>>}
TdPlains == {[i \in 1..n |-> 165] : n \in 1..MaxLen}
NoAlteration == [kind |-> "none", i |-> 0, chunk |-> 0, frame |-> 0, K |-> 0, N |-> 0]

\* the collections with collection i cut down to its first keep chunks
Truncated(cs, i, keep) == [cs EXCEPT ![i] = SubSeq(@, 1, keep)]

\* the collections with one frame of collection i given the label of a
\* K-of-N scheme
Relabelled(cs, i, chunk, frame, K, N) ==
    [cs EXCEPT ![i][chunk][frame].name = FrameName(CollectionLabel(K, i, N), chunk)]

TdInit ==
    /\ NpIdle /\ SerIdle /\ PngIdle /\ TarIdle /\ DdIdle /\ RestIdle /\ LateIdle
    /\ \E nk \in TdSchemes, P \in TdPlains, c \in 1..MaxChunk :
         LET p0     == NewPadForEncode(nk[1], nk[2]).pad
             stored == EncodeStreams(p0, c, P, 0, 1)
         IN  /\ pad = p0
             /\ \E D \in SUBSET (1..nk[1]) \ {{}} :
                   dec = [pc |-> "Fresh", readers |-> SelectIdx(nk[1], LAMBDA i : i \in D),
                          pos |-> 1, K |-> 0, N |-> 0, out |-> <<>>, err |-> "nil",
                          frameError |-> FALSE]
             /\ \/ /\ colls = stored
                   /\ enc = [pc |-> "Done", plain |-> P, chunkSize |-> c, alter |-> NoAlteration]
                \/ \E i \in 1..nk[1], keep \in 0..(Len(stored[1]) - 1) :
                   /\ colls = Truncated(stored, i, keep)
                   /\ enc = [pc |-> "Done", plain |-> P, chunkSize |-> c,
                             alter |-> [NoAlteration EXCEPT !.kind = "truncate", !.i = i,
                                                            !.chunk = keep + 1]]
                \/ \E i \in 1..nk[1], ch \in 1..Len(stored[1]), f \in 1..Len(stored[1][1]),
                      lab \in {<<nk[2] + 1, nk[1]>>, <<nk[2], nk[1] + 1>>, <<nk[2] + 1, nk[1] + 1>>} :
                   /\ f <= Len(stored[i][ch])
                   /\ colls = Relabelled(stored, i, ch, f, lab[1], lab[2])
                   /\ enc = [pc |-> "Done", plain |-> P, chunkSize |-> c,
                             alter |-> [kind |-> "relabel", i |-> i, chunk |-> ch, frame |-> f,
                                        K |-> lab[1], N |-> lab[2]]]

\* a run that takes up the next chunk after an error
TdStepResuming ==
    /\ pad # <<>> /\ dec.pc \in {"Fresh", "StreamingChunks", "Error"}
    /\ LET d == DecodeNext(dec, colls)
       IN  dec' = IF dec.pc = "Error"
                  THEN [dec EXCEPT !.pc = "StreamingChunks", !.pos = @ + 1]
                  ELSE IF d.pc \in {"Done", "Error"}
                  THEN [d EXCEPT !.frameError = (d.pc = "Error")]
                  ELSE [d EXCEPT !.pc = "StreamingChunks"]
    /\ UNCHANGED <<np, pad, enc, colls, serVars, png, tarVars, dd, restVars, lateVars>>

\* one round of a run of Decode: a chunk is decoded and the run goes on, or
\* the run ends at the end of the streams or with an error
TdStep ==
    /\ pad # <<>> /\ dec.pc \in {"Fresh", "StreamingChunks"}
    /\ LET d == DecodeNext(dec, colls)
       IN  dec' = IF d.pc \in {"Done", "Error"}
                  THEN [d EXCEPT !.frameError = (d.pc = "Error")]
                  ELSE [d EXCEPT !.pc = "StreamingChunks"]
    /\ UNCHANGED <<np, pad, enc, colls, serVars, png, tarVars, dd, restVars, lateVars>>

SpecTd == TdInit /\ [][TdStep]_vars

TdReaders == Range(dec.readers)
TdAtEOF(i) == dec.pos > Len(colls[i])
TdEnded == dec.pc \in {"Done", "Error"}

FirstFrame == colls[dec.readers[1]][1][1]

\* the relabelled frame is one the run reads, and not the first it reads
LaterFrameRelabelled ==
    /\ enc.alter.kind = "relabel" /\ enc.alter.i \in TdReaders
    /\ ~(enc.alter.i = dec.readers[1] /\ enc.alter.chunk = 1 /\ enc.alter.frame = 1)

CodecMoves == {<<"Fresh", "StreamingChunks">>, <<"Fresh", "Done">>, <<"Fresh", "Error">>,
               <<"StreamingChunks", "StreamingChunks">>, <<"StreamingChunks", "Done">>,
               <<"StreamingChunks", "Error">>}

\* C25: a codec run only moves Fresh -> StreamingChunks -> Done or Error, one
\* transition per chunk; once a frame error has occurred the run stays in
\* Error: no further plaintext is written to the sink and the run never
\* reaches Done.
C25_CodecStateMachine ==
    [][(pad # <<>> /\ dec' # dec) =>
          /\ <<dec.pc, dec'.pc>> \in CodecMoves
          /\ ~dec.frameError
          /\ dec'.pc = "StreamingChunks" =>
                (dec'.pos = dec.pos + 1 /\ Len(dec'.out) > Len(dec.out)
                   /\ SubSeq(dec'.out, 1, Len(dec.out)) = dec.out)
          /\ dec'.pc \in {"Done", "Error"} => (dec'.pos = dec.pos /\ dec'.out = dec.out)
          /\ dec'.frameError <=> dec'.pc = "Error"]_vars

\* a run has written a chunk to the sink and then met a frame error
C25_Witness ==
    /\ pad # <<>> /\ dec.frameError /\ dec.pc = "Error" /\ dec.err = "ErrFrame"
    /\ dec.pos = 2 /\ dec.out # <<>>

-----------------------------------------------------------------------------
(* SpecCr: a stored collection, as a directory or as a .tar archive, and     *)
(* successive CollectionReader.ReadNextChunk calls on it                     *)

MaxCrChunks == 2
MaxCrCalls == 4

CrFormats == {"bin", "png"}
CrModes == {"dir", "tar"}
CrFaults == {"read", "crc", "header"}

\* the collection's name, and a file in it that is no chunk
CrName == CollectionLabel(MinCopies, 1, MinCopies)
OtherFile == <<120, 46, 116, 120, 116>>

\* what chunk j carries, and the file it is stored in
CrPayload(j) == <<16 + j>>
CrFile(format, j, fault) ==
    LET good == IF format = "png" THEN encodePNGWithData(CrPayload(j)) ELSE CrPayload(j)
        at   == BytesIndex(good, RawdType) + 5
    IN  [name  |-> EntryName(format, CrName, j),
         bytes |-> IF fault = "crc" THEN [good EXCEPT ![at] = XorByte(@, 1)] ELSE good,
         fault |-> fault]

\* filepath.Ext: the name from its last dot on, empty when it has none
RECURSIVE Ext(_)
Ext(name) ==
    IF name = <<>> THEN <<>>
    ELSE IF name[Len(name)] = 46 THEN <<46>>
    ELSE LET e == Ext(SubSeq(name, 1, Len(name) - 1))
         IN  IF e = <<>> THEN <<>> ELSE Append(e, name[Len(name)])

\* strings.ToUpper on ASCII
ToUpper(s) == [i \in 1..Len(s) |-> IF s[i] >= 97 /\ s[i] <= 122 THEN s[i] - 32 ELSE s[i]]

DotPNG == <<46, 80, 78, 71>>
Dotpng == <<46, 112, 110, 103>>
Dotbin == <<46, 98, 105, 110>>

\* the test both branches make on the upper-cased extension of a name
IsChunkFile(format, name) ==
    LET ext == ToUpper(Ext(name))
    IN  \/ format = "png" /\ (ext = DotPNG \/ ext = Dotpng)
        \/ format = "bin" /\ ext = Dotbin
        \/ format = "" /\ (ext = DotPNG \/ ext = Dotpng \/ ext = Dotbin)

Eof == [data |-> <<>>, err |-> "EOF"]
Failed(e) == [data |-> <<>>, err |-> e]

\* NewCollectionReader
NewCollectionReader == [ChunkIndex |-> 1, sorted |-> FALSE, sortedChunkFiles |-> <<>>,
                        tarOpen |-> FALSE, tarPos |-> 1, tarErr |-> FALSE]

\* the directory branch of ReadNextChunk: the reader after the call and what
\* the call returns; the names are kept as indices into the stored files,
\* which os.ReadDir and sort.Strings leave in the order of their names
ReadNextChunkFromDir(c, r) ==
    LET chunkFiles == SelectIdx(Len(c.stored),
                                LAMBDA i : IsChunkFile(c.Format, c.stored[i].name))
        r1 == IF r.sorted THEN r
              ELSE [r EXCEPT !.sorted = TRUE, !.sortedChunkFiles = chunkFiles]
    IN  IF ~r.sorted /\ chunkFiles = <<>> THEN [reader |-> r, res |-> Eof]
        ELSE IF r1.ChunkIndex > Len(r1.sortedChunkFiles) THEN [reader |-> r1, res |-> Eof]
        ELSE LET f   == c.stored[r1.sortedChunkFiles[r1.ChunkIndex]]
                 ext == ToUpper(Ext(f.name))
                 img == ExtractDataFromPNG(f.bytes)
             IN  IF ext = DotPNG \/ ext = Dotpng
                 THEN IF f.fault = "read"
                      THEN [reader |-> r1, res |-> Failed("failed to open chunk file")]
                      ELSE IF img.err # "nil"
                      THEN [reader |-> r1, res |-> Failed("failed to extract data from PNG")]
                      ELSE [reader |-> [r1 EXCEPT !.ChunkIndex = @ + 1],
                            res |-> [data |-> img.data, err |-> "nil"]]
                 ELSE IF f.fault = "read"
                      THEN [reader |-> r1, res |-> Failed("failed to read chunk file")]
                      ELSE [reader |-> [r1 EXCEPT !.ChunkIndex = @ + 1],
                            res |-> [data |-> f.bytes, err |-> "nil"]]

\* the loop of readNextChunkFromTar from the reader's position on; an error
\* of the tar reader stays with it, so the Next after a failed read of an
\* entry's content returns that error
RECURSIVE TarLoop(_, _)
TarLoop(c, r) ==
    LET closed == [r EXCEPT !.tarOpen = FALSE]
    IN  IF r.tarErr THEN [reader |-> closed, res |-> Failed("error reading TAR header")]
        ELSE IF r.tarPos > Len(c.stored) THEN [reader |-> closed, res |-> Eof]
        ELSE LET f    == c.stored[r.tarPos]
                 ext  == ToUpper(Ext(f.name))
                 next == [r EXCEPT !.tarPos = @ + 1]
                 img  == ExtractDataFromPNG(f.bytes)
             IN  IF f.fault = "header"
                 THEN [reader |-> closed, res |-> Failed("error reading TAR header")]
                 ELSE IF IsChunkFile(c.Format, f.name)
                 THEN IF f.fault = "read" THEN TarLoop(c, [next EXCEPT !.tarErr = TRUE])
                      ELSE IF ext = DotPNG \/ ext = Dotpng
                      THEN IF img.err # "nil"
                           THEN [reader |-> next,
                                 res |-> Failed("failed to extract data from PNG in TAR")]
                           ELSE [reader |-> [next EXCEPT !.ChunkIndex = @ + 1],
                                 res |-> [data |-> img.data, err |-> "nil"]]
                      ELSE [reader |-> [next EXCEPT !.ChunkIndex = @ + 1],
                            res |-> [data |-> f.bytes, err |-> "nil"]]
                 ELSE TarLoop(c, [next EXCEPT !.tarErr = (f.fault = "read")])

\* readNextChunkFromTar: the archive is opened when the reader holds no file
readNextChunkFromTar(c, r) ==
    TarLoop(c, IF r.tarOpen THEN r
               ELSE [r EXCEPT !.tarOpen = TRUE, !.tarPos = 1, !.tarErr = FALSE])

ReadNextChunk(c, r) ==
    IF c.mode = "tar" THEN readNextChunkFromTar(c, r) ELSE ReadNextChunkFromDir(c, r)

\* a collection of n chunks written by an encode, with another file in it or
\* not, and at most one chunk damaged afterwards
CrInit ==
    /\ OldIdle /\ RestIdle /\ RsIdle /\ TwIdle /\ EgIdle
    /\ \E m \in CrModes, f \in CrFormats, n \in 0..MaxCrChunks, other \in BOOLEAN,
          bad \in 0..MaxCrChunks, kind \in CrFaults :
          /\ bad <= n
          /\ kind = "crc" => f = "png"
          /\ kind = "header" => m = "tar"
          /\ bad = 0 => kind = "read"
          /\ cr = [mode |-> m, Format |-> f, n |-> n, bad |-> bad,
                   stored |-> (IF other
                               THEN <<[name |-> OtherFile, bytes |-> <<>>, fault |-> "none"]>>
                               ELSE <<>>)
                              \o [j \in 1..n |->
                                    CrFile(f, j, IF j = bad THEN kind ELSE "none")],
                   reader |-> NewCollectionReader, results |-> <<>>]

ReadNextChunkCall ==
    /\ cr # <<>> /\ Len(cr.results) < MaxCrCalls
    /\ LET r == ReadNextChunk(cr, cr.reader)
       IN  cr' = [cr EXCEPT !.reader = r.reader, !.results = Append(@, r.res)]
    /\ UNCHANGED <<oldVars, restVars, rs, tw, eg>>

SpecCr == CrInit /\ [][ReadNextChunkCall]_vars

\* the number of calls that returned a chunk before the first that did not
RECURSIVE Delivered(_)
Delivered(results) ==
    IF results = <<>> \/ Head(results).err # "nil" THEN 0
    ELSE 1 + Delivered(Tail(results))

\* the calls up to the first that returns no chunk: chunk 1, 2, ... in order,
\* then EOF after chunk n, or an error at the damaged chunk
ChunksInOrder ==
    LET m == Delivered(cr.results)
    IN  /\ \A k \in 1..m : cr.results[k].data = CrPayload(k)
        /\ m < Len(cr.results) =>
              IF cr.bad = 0 THEN m = cr.n /\ cr.results[m + 1].err = "EOF"
              ELSE m = cr.bad - 1 /\ cr.results[m + 1].err \notin {"nil", "EOF"}

\* C22: for a collection stored as a directory or a .tar archive, in format
\* bin or png, holding chunks 1..n, successive ReadNextChunk calls return
\* chunk 1, then 2, ..., then n, each once, and call n+1 returns io.EOF; a
\* chunk that cannot be read makes the call return an error and is never
\* skipped.
C22_ChunksInOrderThenEOF == cr # <<>> => ChunksInOrder

\* the same for the png collections
PngChunksInOrderThenEOF == (cr # <<>> /\ cr.Format = "png") => ChunksInOrder

\* C27: once ReadNextChunk has returned io.EOF every later call on the reader
\* returns io.EOF again, for directories and .tar archives alike.
C27_EOFIsSticky ==
    cr # <<>> =>
        \A k \in 1..Len(cr.results) :
            cr.results[k].err = "EOF" =>
                \A l \in k..Len(cr.results) : cr.results[l].err = "EOF"

\* the same for the collections stored as directories
DirectoryEOFIsSticky ==
    (cr # <<>> /\ cr.mode = "dir") =>
        \A k \in 1..Len(cr.results) :
            cr.results[k].err = "EOF" =>
                \A l \in k..Len(cr.results) : cr.results[l].err = "EOF"
-----------------------------------------------------------------------------
(* SpecRs: one RNG sub-source and two tasks calling its Read                 *)

MaxRsRead == 2
MaxRsCalls == 2

RsTasks == {1, 2}
SubSources == {"crypto", "math", "chacha20", "pcg64", "mt19937"}

\* byte k of the generator's output stream, told apart by its position
Gen(k) == k % 256

\* what the caller's buffer holds before the call
CallerBuffer(len) == [i \in 1..len |-> 255]

RsInit ==
    /\ OldIdle /\ RestIdle /\ CrIdle /\ TwIdle /\ EgIdle
    /\ \E s \in SubSources :
          rs = [source |-> s, lock |-> 0, next |-> 0,
                tasks |-> [t \in RsTasks |-> [pc |-> "idle", p |-> <<>>, i |-> 1, calls |-> 0]],
                done |-> <<>>]

\* a task calls Read with a buffer of some length
RsCall(t) ==
    /\ rs # <<>> /\ rs.tasks[t].pc = "idle" /\ rs.tasks[t].calls < MaxRsCalls
    /\ \E len \in 1..MaxRsRead :
          rs' = [rs EXCEPT !.tasks[t] = [pc |-> "lock", p |-> CallerBuffer(len), i |-> 1,
                                         calls |-> @.calls + 1]]
    /\ UNCHANGED <<oldVars, restVars, cr, tw, eg>>

\* lock.Lock() without waiting for the mutex to be free
RsLockNoWait(t) ==
    /\ rs # <<>> /\ rs.tasks[t].pc = "lock"
    /\ rs' = [rs EXCEPT !.lock = t, !.tasks[t].pc = "read"]
    /\ UNCHANGED <<oldVars, restVars, cr, tw, eg>>

\* lock.Lock()
RsLock(t) ==
    /\ rs # <<>> /\ rs.tasks[t].pc = "lock" /\ rs.lock = 0
    /\ rs' = [rs EXCEPT !.lock = t, !.tasks[t].pc = "read"]
    /\ UNCHANGED <<oldVars, restVars, cr, tw, eg>>

\* one step of Read's body: crand.Read fills the buffer; MathRand, PCG64Rand
\* and MT19937Rand draw one byte per turn of the loop; ChaCha20Rand zeroes
\* the buffer and then XORs the key stream into it
RsStep(t) ==
    /\ rs # <<>> /\ rs.tasks[t].pc \in {"read", "xor"}
    /\ LET me  == rs.tasks[t]
           len == Len(me.p)
       IN  rs' =
             IF rs.source = "crypto"
             THEN [rs EXCEPT !.tasks[t].p = [i \in 1..len |-> Gen(rs.next + i - 1)],
                             !.next = @ + len, !.tasks[t].pc = "unlock"]
             ELSE IF rs.source = "chacha20"
             THEN IF me.pc = "read"
                  THEN [rs EXCEPT !.tasks[t].p = [i \in 1..len |-> 0], !.tasks[t].pc = "xor"]
                  ELSE [rs EXCEPT !.tasks[t].p = [i \in 1..len |->
                                                    XorByte(me.p[i], Gen(rs.next + i - 1))],
                                  !.next = @ + len, !.tasks[t].pc = "unlock"]
             ELSE [rs EXCEPT !.tasks[t].p[me.i] = Gen(rs.next), !.next = @ + 1,
                             !.tasks[t].i = @ + 1,
                             !.tasks[t].pc = IF me.i = len THEN "unlock" ELSE "read"]
    /\ UNCHANGED <<oldVars, restVars, cr, tw, eg>>

\* the deferred lock.Unlock() and the return
RsUnlock(t) ==
    /\ rs # <<>> /\ rs.tasks[t].pc = "unlock"
    /\ rs' = [rs EXCEPT !.lock = IF @ = t THEN 0 ELSE @, !.tasks[t].pc = "idle",
                        !.done = Append(@, [task |-> t, p |-> rs.tasks[t].p])]
    /\ UNCHANGED <<oldVars, restVars, cr, tw, eg>>

RsNext == \E t \in RsTasks : RsCall(t) \/ RsLock(t) \/ RsStep(t) \/ RsUnlock(t)

SpecRs == RsInit /\ [][RsNext]_vars

InRead(t) == rs.tasks[t].pc \in {"read", "xor", "unlock"}

\* C26: each sub-source holds its own mutex for the whole of Read, so that
\* Read calls of two tasks on one sub-source are serialised: the buffer of
\* each call receives one contiguous segment of the generator's output and
\* no output byte is delivered to two callers.
C26_ReadsSerialised ==
    rs # <<>> =>
        /\ \A t \in RsTasks : InRead(t) => rs.lock = t
        /\ \A a \in 1..Len(rs.done) :
              LET p == rs.done[a].p
              IN  /\ \A i \in 1..Len(p) : p[i] = Gen(p[1] + i - 1) /\ p[1] + i - 1 < rs.next
                  /\ \A b \in 1..Len(rs.done) : a # b => Range(p) \cap Range(rs.done[b].p) = {}
        /\ SumLens([a \in 1..Len(rs.done) |-> rs.done[a].p]) <= rs.next

\* a call of task 2 has returned a full buffer, task 1 is in the middle of
\* Read and task 2 waits for the mutex with its next call
C26_Witness ==
    /\ rs # <<>> /\ rs.source = "math"
    /\ rs.tasks[1].pc = "read" /\ rs.tasks[1].i = MaxRsRead /\ rs.tasks[2].pc = "lock"
    /\ \E a \in 1..Len(rs.done) : rs.done[a].task = 2 /\ Len(rs.done[a].p) = MaxRsRead
-----------------------------------------------------------------------------
(* SpecTw: goroutines calling NewTarChunkWriter, Write, Close, FinalizeTar   *)
(* and FinalizeAllTarWriters; the registry mutex and the writers' mutexes    *)

MaxTwCalls == 3

TwGoroutines == {1, 2}
TwPaths == {1, 2}

NoGoroutine == [pc |-> "idle", path |-> 0, w |-> 0, fw |-> 0, snap |-> <<>>, k |-> 0,
                ret |-> "idle", gotFinalised |-> FALSE]

TwInit ==
    /\ OldIdle /\ RestIdle /\ CrIdle /\ RsIdle /\ EgIdle
    /\ tw = [reg |-> [p \in TwPaths |-> 0], regLock |-> 0, writers |-> <<>>,
             gor |-> [g \in TwGoroutines |-> NoGoroutine], calls |-> 0]

Me(g) == tw.gor[g]
TwOthers == <<oldVars, restVars, cr, rs, eg>>

\* a goroutine calls one of the five functions, the methods on the writer it
\* was handed last
TwCall(g) ==
    /\ tw # <<>> /\ Me(g).pc = "idle" /\ tw.calls < MaxTwCalls
    /\ \/ \E p \in TwPaths :
            tw' = [tw EXCEPT !.calls = @ + 1, !.gor[g].pc = "N1", !.gor[g].path = p]
       \/ /\ Me(g).w # 0
          /\ \E op \in {"W1", "C1"} : tw' = [tw EXCEPT !.calls = @ + 1, !.gor[g].pc = op]
       \/ /\ Me(g).w # 0
          /\ tw' = [tw EXCEPT !.calls = @ + 1, !.gor[g].pc = "F1", !.gor[g].fw = Me(g).w,
                              !.gor[g].ret = "idle"]
       \/ tw' = [tw EXCEPT !.calls = @ + 1, !.gor[g].pc = "A1"]
    /\ UNCHANGED TwOthers

\* NewTarChunkWriter: tarWriterMutex.Lock()
NewLock(g) ==
    /\ tw # <<>> /\ Me(g).pc = "N1" /\ tw.regLock = 0
    /\ tw' = [tw EXCEPT !.regLock = g, !.gor[g].pc = "N2"]
    /\ UNCHANGED TwOthers

\* NewTarChunkWriter under the registry mutex: the registered writer is
\* handed out, or a file is opened and a new writer registered, or opening
\* fails; the deferred Unlock
NewBody(g) ==
    /\ tw # <<>> /\ Me(g).pc = "N2"
    /\ LET p  == Me(g).path
           id == Len(tw.writers) + 1
       IN  IF tw.reg[p] # 0
           THEN tw' = [tw EXCEPT !.regLock = 0, !.gor[g].pc = "idle", !.gor[g].w = tw.reg[p],
                                 !.writers[tw.reg[p]].chunkData = 0,
                                 !.gor[g].gotFinalised =
                                     @ \/ tw.writers[tw.reg[p]].tarClosed
                                       \/ tw.writers[tw.reg[p]].fileClosed]
           ELSE \/ tw' = [tw EXCEPT !.regLock = 0, !.gor[g].pc = "idle", !.gor[g].w = id,
                                    !.reg[p] = id,
                                    !.writers = Append(@, [path |-> p, tarClosed |-> FALSE,
                                                           fileClosed |-> FALSE, lock |-> 0,
                                                           chunkData |-> 0, entries |-> 0])]
                \/ tw' = [tw EXCEPT !.regLock = 0, !.gor[g].pc = "idle", !.gor[g].w = 0]
    /\ UNCHANGED TwOthers

\* Write: tw.mutex.Lock()
WriteLock(g) ==
    /\ tw # <<>> /\ Me(g).pc = "W1" /\ tw.writers[Me(g).w].lock = 0
    /\ tw' = [tw EXCEPT !.writers[Me(g).w].lock = g, !.gor[g].pc = "W2"]
    /\ UNCHANGED TwOthers

\* Write: the append to chunkData, counted in pieces, and the deferred Unlock
WriteBody(g) ==
    /\ tw # <<>> /\ Me(g).pc = "W2"
    /\ tw' = [tw EXCEPT !.writers[Me(g).w].lock = 0, !.writers[Me(g).w].chunkData = @ + 1,
                        !.gor[g].pc = "idle"]
    /\ UNCHANGED TwOthers

\* Close: tw.mutex.Lock()
CloseLock(g) ==
    /\ tw # <<>> /\ Me(g).pc = "C1" /\ tw.writers[Me(g).w].lock = 0
    /\ tw' = [tw EXCEPT !.writers[Me(g).w].lock = g, !.gor[g].pc = "C2"]
    /\ UNCHANGED TwOthers

\* Close: the entry is written to the tar stream or an error is returned;
\* the deferred Unlock
CloseBody(g) ==
    /\ tw # <<>> /\ Me(g).pc = "C2"
    /\ tw' = IF tw.writers[Me(g).w].tarClosed
             THEN [tw EXCEPT !.writers[Me(g).w].lock = 0, !.gor[g].pc = "idle"]
             ELSE [tw EXCEPT !.writers[Me(g).w].lock = 0, !.writers[Me(g).w].chunkData = 0,
                             !.writers[Me(g).w].entries = @ + 1, !.gor[g].pc = "idle"]
    /\ UNCHANGED TwOthers

\* FinalizeTar: tw.mutex.Lock()
FinalizeLock(g) ==
    /\ tw # <<>> /\ Me(g).pc = "F1" /\ tw.writers[Me(g).fw].lock = 0
    /\ tw' = [tw EXCEPT !.writers[Me(g).fw].lock = g, !.gor[g].pc = "F2"]
    /\ UNCHANGED TwOthers

\* where a goroutine goes on when FinalizeTar returns: to its caller, or in
\* FinalizeAllTarWriters to the next writer of the snapshot and then to the
\* second Lock of the registry
AfterFinalize(me) ==
    IF me.ret = "idle" THEN [me EXCEPT !.pc = "idle"]
    ELSE IF me.k < Len(me.snap)
    THEN [me EXCEPT !.pc = "F1", !.k = @ + 1, !.fw = me.snap[me.k + 1]]
    ELSE [me EXCEPT !.pc = "A4"]

\* FinalizeTar where a failed close returns with the writer's mutex held
FinalizeCloseKeepsLock(g) ==
    /\ tw # <<>> /\ Me(g).pc = "F2"
    /\ LET w == Me(g).fw
       IN  IF tw.writers[w].fileClosed
           THEN tw' = [tw EXCEPT !.gor[g] = AfterFinalize(@)]
           ELSE \/ tw' = [tw EXCEPT !.writers[w].tarClosed = TRUE,
                                    !.writers[w].fileClosed = TRUE, !.gor[g].pc = "F4"]
                \/ tw' = [tw EXCEPT !.gor[g] = AfterFinalize(@)]
    /\ UNCHANGED TwOthers

\* FinalizeTar under the writer's mutex: the tar stream and the file are
\* closed; when closing the tar stream fails, or the file is closed already,
\* the error is returned after the deferred Unlock
FinalizeClose(g) ==
    /\ tw # <<>> /\ Me(g).pc = "F2"
    /\ LET w == Me(g).fw
       IN  IF tw.writers[w].fileClosed
           THEN tw' = [tw EXCEPT !.writers[w].lock = 0, !.gor[g] = AfterFinalize(@)]
           ELSE \/ tw' = [tw EXCEPT !.writers[w].tarClosed = TRUE,
                                    !.writers[w].fileClosed = TRUE, !.gor[g].pc = "F4"]
                \/ tw' = [tw EXCEPT !.writers[w].lock = 0, !.gor[g] = AfterFinalize(@)]
    /\ UNCHANGED TwOthers

\* FinalizeTar: tarWriterMutex.Lock(), with the writer's mutex held
FinalizeRegLock(g) ==
    /\ tw # <<>> /\ Me(g).pc = "F4" /\ tw.regLock = 0
    /\ tw' = [tw EXCEPT !.regLock = g, !.gor[g].pc = "F5"]
    /\ UNCHANGED TwOthers

\* FinalizeTar: delete(tarWriters, tw.TarPath), tarWriterMutex.Unlock() and
\* the deferred Unlock of the writer's mutex
FinalizeDelete(g) ==
    /\ tw # <<>> /\ Me(g).pc = "F5"
    /\ LET w == Me(g).fw
       IN  tw' = [tw EXCEPT !.reg[tw.writers[w].path] = 0, !.regLock = 0,
                            !.writers[w].lock = 0, !.gor[g] = AfterFinalize(@)]
    /\ UNCHANGED TwOthers

\* FinalizeAllTarWriters: the first tarWriterMutex.Lock()
AllLock(g) ==
    /\ tw # <<>> /\ Me(g).pc = "A1" /\ tw.regLock = 0
    /\ tw' = [tw EXCEPT !.regLock = g, !.gor[g].pc = "A2"]
    /\ UNCHANGED TwOthers

\* the sequences that hold every member of a set once
Orderings(T) == {s \in [1..Cardinality(T) -> T] : Range(s) = T}

\* FinalizeAllTarWriters: the registered writers are collected in the order
\* the map yields them, the mutex is released; with no writer the call returns
AllSnapshot(g) ==
    /\ tw # <<>> /\ Me(g).pc = "A2"
    /\ \E snap \in Orderings({tw.reg[p] : p \in TwPaths} \ {0}) :
          tw' = IF snap = <<>>
                THEN [tw EXCEPT !.regLock = 0, !.gor[g].pc = "idle"]
                ELSE [tw EXCEPT !.regLock = 0, !.gor[g].pc = "F1", !.gor[g].snap = snap,
                                !.gor[g].k = 1, !.gor[g].fw = snap[1], !.gor[g].ret = "A3"]
    /\ UNCHANGED TwOthers

\* FinalizeAllTarWriters: the second tarWriterMutex.Lock()
AllRelock(g) ==
    /\ tw # <<>> /\ Me(g).pc = "A4" /\ tw.regLock = 0
    /\ tw' = [tw EXCEPT !.regLock = g, !.gor[g].pc = "A5"]
    /\ UNCHANGED TwOthers

\* FinalizeAllTarWriters: the map is replaced by an empty one, Unlock, return
AllClear(g) ==
    /\ tw # <<>> /\ Me(g).pc = "A5"
    /\ tw' = [tw EXCEPT !.reg = [p \in TwPaths |-> 0], !.regLock = 0, !.gor[g].pc = "idle",
                        !.gor[g].snap = <<>>, !.gor[g].k = 0]
    /\ UNCHANGED TwOthers

\* the steps of a call that has started
TwRun(g) ==
    \/ NewLock(g) \/ NewBody(g) \/ WriteLock(g) \/ WriteBody(g) \/ CloseLock(g) \/ CloseBody(g)
    \/ FinalizeLock(g) \/ FinalizeClose(g) \/ FinalizeRegLock(g) \/ FinalizeDelete(g)
    \/ AllLock(g) \/ AllSnapshot(g) \/ AllRelock(g) \/ AllClear(g)

TwNext == \E g \in TwGoroutines : TwCall(g) \/ TwRun(g)

SpecTw == TwInit /\ [][TwNext]_vars

\* the scheduler lets every goroutine that can take a step take one
SpecTwLive == SpecTw /\ \A g \in TwGoroutines : WF_vars(TwRun(g))

Registered(w) == tw.reg[tw.writers[w].path] = w
Finalised(w) == tw.writers[w].tarClosed /\ tw.writers[w].fileClosed

\* C28: a TarChunkWriter leaves the registry only after its tar stream and its
\* file have been closed: under every interleaving of NewTarChunkWriter with
\* FinalizeAllTarWriters, and also when FinalizeTar fails, no writer is dropped
\* from the registry while its file is still open, and no writer handed out by
\* NewTarChunkWriter is already finalised.
C28_RegistryHoldsOpenWriters ==
    tw # <<>> =>
        /\ \A w \in 1..Len(tw.writers) : ~Registered(w) => Finalised(w)
        /\ \A g \in TwGoroutines : ~Me(g).gotFinalised

\* no writer is taken out of the registry by FinalizeTar itself before it has
\* closed the tar stream and the file
FinalizeTarDeletesClosed ==
    [][tw # <<>> =>
          \A g \in TwGoroutines :
              (Me(g).pc = "F5" /\ tw'.gor[g].pc # "F5") => Finalised(Me(g).fw)]_vars

HoldsRegistry(g) == tw.regLock = g
HoldsWriter(g) == \E w \in 1..Len(tw.writers) : tw.writers[w].lock = g
AtWriterLock(g) == Me(g).pc \in {"W1", "C1", "F1"}
InCall(g) == Me(g).pc # "idle"

\* the registry mutex is never held when a writer's mutex is asked for, and a
\* goroutine that is in no call holds no mutex
LockOrder ==
    \A g \in TwGoroutines :
        /\ AtWriterLock(g) => ~HoldsRegistry(g)
        /\ ~InCall(g) => (~HoldsRegistry(g) /\ ~HoldsWriter(g))

\* C29: no interleaving of NewTarChunkWriter, Write, Close, FinalizeTar and
\* FinalizeAllTarWriters deadlocks: the registry mutex and the writers'
\* mutexes are never acquired in conflicting orders, and every call that
\* starts eventually returns with every lock it took released.
C29_NoDeadlock ==
    /\ [](tw # <<>> => LockOrder)
    /\ \A g \in TwGoroutines : (tw # <<>> /\ InCall(g)) ~> (~InCall(g) /\ LockOrder)

\* a goroutine in FinalizeTar holds a writer's mutex and waits for the
\* registry mutex, which a goroutine in NewTarChunkWriter holds
C29_Witness ==
    /\ tw # <<>> /\ Me(1).pc = "F4" /\ HoldsWriter(1)
    /\ Me(2).pc = "N2" /\ HoldsRegistry(2)
-----------------------------------------------------------------------------
(* SpecEg: the goroutines EncodeDirectory starts, the serialiser and the     *)
(* compressor, and the pipes between them and Pad.Encode                     *)

MaxEgItems == 3

NoPipe == [pending |-> FALSE, rclosed |-> FALSE, wclosed |-> FALSE, werr |-> FALSE]

\* EncodeDirectory has started the serialiser, and with gzip the compressor,
\* and calls Pad.Encode
EgInit ==
    /\ OldIdle /\ RestIdle /\ CrIdle /\ RsIdle /\ TwIdle
    /\ \E gz \in BOOLEAN, n \in 0..MaxEgItems :
          eg = [gzip |-> gz, items |-> n, ser |-> "walk",
                comp |-> IF gz THEN "copy" ELSE "none",
                main |-> "encode", result |-> "none", p1 |-> NoPipe, p2 |-> NoPipe]

EgOthers == <<oldVars, restVars, cr, rs, tw>>

\* the pipe Pad.Encode reads from
InputPipe == IF eg.gzip THEN "p2" ELSE "p1"

\* the serialiser writes a header or the content of a file to its pipe; the
\* write fails at once when the read end is closed, and the error ends the
\* walk: CloseWithError, the deferred tw.Close and pw.Close
SerWrite ==
    /\ eg # <<>> /\ eg.ser = "walk" /\ eg.items > 0
    /\ eg' = IF eg.p1.rclosed
             THEN [eg EXCEPT !.ser = "done", !.p1.wclosed = TRUE, !.p1.werr = TRUE]
             ELSE [eg EXCEPT !.ser = "writing", !.p1.pending = TRUE]
    /\ UNCHANGED EgOthers

\* the pipe write returns: the reader has taken the bytes, or the read end
\* has been closed
SerWritten ==
    /\ eg # <<>> /\ eg.ser = "writing" /\ (~eg.p1.pending \/ eg.p1.rclosed)
    /\ eg' = IF eg.p1.rclosed
             THEN [eg EXCEPT !.ser = "done", !.p1.pending = FALSE, !.p1.wclosed = TRUE,
                             !.p1.werr = TRUE]
             ELSE [eg EXCEPT !.ser = "walk", !.items = @ - 1]
    /\ UNCHANGED EgOthers

\* filepath.Walk meets an error: pw.CloseWithError and the return
SerWalkError ==
    /\ eg # <<>> /\ eg.ser = "walk" /\ eg.items > 0
    /\ eg' = [eg EXCEPT !.ser = "done", !.p1.wclosed = TRUE, !.p1.werr = TRUE]
    /\ UNCHANGED EgOthers

\* the walk is over: the deferred tw.Close writes the end of the archive
SerFooter ==
    /\ eg # <<>> /\ eg.ser = "walk" /\ eg.items = 0
    /\ eg' = IF eg.p1.rclosed
             THEN [eg EXCEPT !.ser = "done", !.p1.wclosed = TRUE]
             ELSE [eg EXCEPT !.ser = "footer", !.p1.pending = TRUE]
    /\ UNCHANGED EgOthers

\* that write returns, and the deferred pw.Close ends the goroutine
SerFooterWritten ==
    /\ eg # <<>> /\ eg.ser = "footer" /\ (~eg.p1.pending \/ eg.p1.rclosed)
    /\ eg' = [eg EXCEPT !.ser = "done", !.p1.pending = FALSE, !.p1.wclosed = TRUE]
    /\ UNCHANGED EgOthers

SerStep == SerWrite \/ SerWritten \/ SerWalkError \/ SerFooter \/ SerFooterWritten

\* io.Copy(gzw, r) reads from the serialiser's pipe: bytes, which gzip keeps
\* or writes on to its own pipe, or the end of the stream or an error, after
\* which the copy is over
CompRead ==
    /\ eg # <<>> /\ eg.comp = "copy"
    /\ \/ /\ eg.p1.rclosed
          /\ eg' = [eg EXCEPT !.comp = "gzclose"]
       \/ /\ ~eg.p1.rclosed /\ eg.p1.pending
          /\ \/ eg' = [eg EXCEPT !.p1.pending = FALSE]
             \/ eg' = [eg EXCEPT !.p1.pending = FALSE, !.comp = "writing", !.p2.pending = TRUE]
       \/ /\ ~eg.p1.rclosed /\ ~eg.p1.pending /\ eg.p1.wclosed
          /\ eg' = [eg EXCEPT !.comp = "gzclose"]
    /\ UNCHANGED EgOthers

\* a write of compressed bytes returns when Pad.Encode has read them
CompWritten ==
    /\ eg # <<>> /\ eg.comp = "writing" /\ ~eg.p2.pending
    /\ eg' = [eg EXCEPT !.comp = "copy"]
    /\ UNCHANGED EgOthers

\* gzw.Close writes what gzip still holds and the trailer
CompGzClose ==
    /\ eg # <<>> /\ eg.comp = "gzclose"
    /\ eg' = [eg EXCEPT !.comp = "trailer", !.p2.pending = TRUE]
    /\ UNCHANGED EgOthers

\* that write returns; pw.Close ends the goroutine
CompClosed ==
    /\ eg # <<>> /\ eg.comp = "trailer" /\ ~eg.p2.pending
    /\ eg' = [eg EXCEPT !.comp = "done", !.p2.wclosed = TRUE]
    /\ UNCHANGED EgOthers

CompStep == CompRead \/ CompWritten \/ CompGzClose \/ CompClosed

\* Pad.Encode reads bytes from its input
EncodeReads ==
    /\ eg # <<>> /\ eg.main = "encode" /\ eg[InputPipe].pending
    /\ eg' = [eg EXCEPT ![InputPipe].pending = FALSE]
    /\ UNCHANGED EgOthers

\* Pad.Encode reads the end of its input, or the error the writer closed the
\* pipe with, and returns; EncodeDirectory returns and the deferred
\* tarStream.Close closes the read end of the serialiser's pipe
EncodeEnds ==
    /\ eg # <<>> /\ eg.main = "encode" /\ ~eg[InputPipe].pending /\ eg[InputPipe].wclosed
    /\ eg' = [eg EXCEPT !.main = "returned", !.p1.rclosed = TRUE,
                        !.result = IF eg[InputPipe].werr THEN "error" ELSE "nil"]
    /\ UNCHANGED EgOthers

\* Pad.Encode returns an error of its own, from the random source or a chunk
\* writer; EncodeDirectory returns it, with the deferred tarStream.Close
EncodeFails ==
    /\ eg # <<>> /\ eg.main = "encode"
    /\ eg' = [eg EXCEPT !.main = "returned", !.p1.rclosed = TRUE, !.result = "error"]
    /\ UNCHANGED EgOthers

MainStep == EncodeReads \/ EncodeEnds \/ EncodeFails

EgNext == SerStep \/ CompStep \/ MainStep

SpecEg == EgInit /\ [][EgNext]_vars

\* the scheduler runs every goroutine that can take a step
SpecEgLive == SpecEg /\ WF_vars(SerStep) /\ WF_vars(CompStep) /\ WF_vars(MainStep)

EgReturned == eg # <<>> /\ eg.main = "returned"
SerTerminated == eg.ser = "done"
CompTerminated == eg.comp \in {"none", "done"}

\* C30: when EncodeDirectory returns, with success or with an error, the
\* serialisation goroutine and the compression goroutine it started have
\* terminated or eventually terminate; neither stays blocked forever on a
\* pipe write that nobody reads or closes the other end of.
C30_GoroutinesTerminate == EgReturned ~> (SerTerminated /\ CompTerminated)

\* the serialiser always terminates after the return
SerialiserTerminates == EgReturned ~> SerTerminated

\* after a return without error both goroutines have terminated
TerminatedOnSuccess ==
    (EgReturned /\ eg.result = "nil") => (SerTerminated /\ CompTerminated)

\* without compression there is nothing left after the return
TerminatesUncompressed == (EgReturned /\ ~eg.gzip) ~> (SerTerminated /\ CompTerminated)
=============================================================================
